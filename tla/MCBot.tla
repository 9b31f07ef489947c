-------------------------------- MODULE MCBot --------------------------------
(* Values for the constants of Bot in TLC's runs, besides those of         *)
(* MCAuction.  The owner is the contract's admin and has the bot's key     *)
(* pair, alice bids.                                                       *)
EXTENDS BotProperties, MCAuction

MCBotUsers == {owner, alice}

MCBotFunds == [user \in MCBotUsers |-> IF user = owner THEN 14 ELSE 2]

MCTwoFunds == [user \in {owner} |-> 13]

MCOneFunds == [user \in {owner} |-> 11]

(* A token auction without end. *)
EndlessToken == {Config(2, 0, 0, "Token")}
=============================================================================
