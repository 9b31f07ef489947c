------------------------------ MODULE Contract ------------------------------
(***************************************************************************)
(* The part of the gold program's state that belongs to the contract and   *)
(* not to one auction: the contract bank account with its two authorities, *)
(* the protocol fee, the two auction pools, and the wallets the lamports   *)
(* come from; and the instructions that only touch that part.              *)
(*                                                                         *)
(* A Solana transaction is atomic: an instruction that returns an error    *)
(* changes nothing.  An instruction is therefore one action, the checks    *)
(* that make it fail are its guard, wherever in the handler they stand,    *)
(* and there is no action for a failing call.                              *)
(***************************************************************************)
EXTENDS IdSet

CONSTANTS
    AuctionIds,         \* the ids an auction may have
    Users,              \* key pairs that can sign a transaction
    NoAccount,          \* stands for an account that was not created
    Funds,              \* the lamports each user starts with
    ContractBankRent,   \* rent-exempt minimum of the contract bank account
    ProtocolFeeRent,    \* the same for the protocol fee account
    PoolBaseRent,       \* the same for an empty pool,
    PoolSlotRent,       \* and for each id of its capacity
    DEFAULT_PROTOCOL_FEE,
    MaxProtocolFee,     \* 50 in the code,
    FeeScale,           \* 1000: the fee is expressed in thousandths
    PoolLens,           \* inputs: capacities asked for,
    Fees,               \* protocol fees asked for,
    Withdrawals,        \* amounts withdrawn from the contract bank,
    NewAuthorities      \* and users the withdraw authority is passed to

Pools == {"primary", "secondary"}

ASSUME ContractAssumption ==
    /\ IsFiniteSet(AuctionIds) /\ IsFiniteSet(Users)
    /\ NoAccount \notin Users
    /\ NoAccount \notin Nat
    /\ NoAccount \notin [contract_admin: Users, withdraw_authority: Users]
    /\ Funds \in [Users -> Nat]
    /\ ContractBankRent \in Nat \ {0}
    /\ ProtocolFeeRent \in Nat
    /\ PoolBaseRent \in Nat
    /\ PoolSlotRent \in Nat
    /\ FeeScale \in Nat \ {0}
    /\ MaxProtocolFee \in 0..FeeScale
    /\ DEFAULT_PROTOCOL_FEE \in 0..MaxProtocolFee
    /\ PoolLens \subseteq Nat
    /\ Fees \subseteq Nat
    /\ Withdrawals \subseteq Nat
    /\ NewAuthorities \subseteq Users

VARIABLES
    contract_bank_state,  \* [contract_admin, withdraw_authority] or NoAccount
    contract_bank,        \* lamports of the contract bank account
    protocol_fee_state,   \* the fee, or NoAccount before it is first set
    pool,                 \* the ids in the primary and in the secondary pool
    max_len,              \* the capacity of each pool
    wallet                \* lamports of each user

contractVars ==
    <<contract_bank_state, contract_bank, protocol_fee_state, pool, max_len, wallet>>

-----------------------------------------------------------------------------
(* Helpers *)

IsContractAdmin(user) ==
    /\ contract_bank_state # NoAccount
    /\ contract_bank_state.contract_admin = user

IsWithdrawAuthority(user) ==
    /\ contract_bank_state # NoAccount
    /\ contract_bank_state.withdraw_authority = user

(* The rent-exempt minimum of a pool account of the given capacity. *)
PoolRent(len) == PoolBaseRent + PoolSlotRent * len

ProtocolFee ==
    IF protocol_fee_state = NoAccount THEN DEFAULT_PROTOCOL_FEE
                                      ELSE protocol_fee_state

(* The contract bank's share of a claimed amount, computed as a 64-bit     *)
(* float and truncated.  Below 2^46 lamports that is the exact quotient    *)
(* rounded down, or one less when the quotient is whole and the product    *)
(* falls just short of it (428500 * 0.036 is 15425 in the code).           *)
FeeShares(amount) ==
    {n \div FeeScale : n \in {amount * ProtocolFee, amount * ProtocolFee - 1} \cap Nat}

-----------------------------------------------------------------------------
(* Instructions *)

InitContract ==
    /\ contract_bank_state = NoAccount
    /\ contract_bank = 0
    /\ protocol_fee_state = NoAccount
    /\ pool = [p \in Pools |-> {}]
    /\ max_len = [p \in Pools |-> 0]
    /\ wallet = Funds

(* The admin pays for the two pools and for the bank.  The accounts are    *)
(* created together, which fails when one of them exists.                  *)
InitializeContract(admin, authority, len) ==
    LET rent == 2 * PoolRent(len) + ContractBankRent
    IN  /\ contract_bank = 0 /\ contract_bank_state = NoAccount
        /\ wallet[admin] >= rent
        /\ wallet' = [wallet EXCEPT ![admin] = @ - rent]
        /\ contract_bank' = ContractBankRent
        /\ contract_bank_state' =
               [contract_admin |-> admin, withdraw_authority |-> authority]
        /\ pool' = [p \in Pools |-> {}]
        /\ max_len' = [p \in Pools |-> len]
        /\ UNCHANGED protocol_fee_state

(* Fault: the rent of the bank itself may be withdrawn. *)
WithdrawableIncludingRent == contract_bank

Withdrawable == contract_bank - ContractBankRent

AdminWithdraw(user, amount) ==
    /\ IsWithdrawAuthority(user)
    /\ amount <= Withdrawable
    /\ wallet' = [wallet EXCEPT ![user] = @ + amount]
    /\ contract_bank' = contract_bank - amount
    /\ UNCHANGED <<contract_bank_state, protocol_fee_state, pool, max_len>>

AdminWithdrawReassign(user, new) ==
    /\ IsWithdrawAuthority(user)
    /\ contract_bank_state' = [contract_bank_state EXCEPT !.withdraw_authority = new]
    /\ UNCHANGED <<contract_bank, protocol_fee_state, pool, max_len, wallet>>

(* The fee account is created, at the admin's expense, when it is first set. *)
SetProtocolFee(admin, fee) ==
    LET rent == IF protocol_fee_state = NoAccount THEN ProtocolFeeRent ELSE 0
    IN  /\ IsContractAdmin(admin)
        /\ fee <= MaxProtocolFee
        /\ wallet[admin] >= rent
        /\ wallet' = [wallet EXCEPT ![admin] = @ - rent]
        /\ protocol_fee_state' = fee
        /\ UNCHANGED <<contract_bank_state, contract_bank, pool, max_len>>

(* Fault: the new capacity is not compared with the current one. *)
MayReallocateToAny(p, len) == len >= 0

MayReallocate(p, len) == len >= max_len[p]

(* Either pool may grow; the admin pays the difference in rent. *)
ReallocatePool(admin, p, len) ==
    LET rent == PoolRent(len) - PoolRent(max_len[p])
    IN  /\ IsContractAdmin(admin)
        /\ MayReallocate(p, len)
        /\ wallet[admin] >= rent
        /\ wallet' = [wallet EXCEPT ![admin] = @ - rent]
        /\ max_len' = [max_len EXCEPT ![p] = len]
        /\ UNCHANGED <<contract_bank_state, contract_bank, protocol_fee_state, pool>>

NextContract ==
    \E user \in Users :
        \/ \E authority \in Users, len \in PoolLens : InitializeContract(user, authority, len)
        \/ \E amount \in Withdrawals : AdminWithdraw(user, amount)
        \/ \E new \in NewAuthorities : AdminWithdrawReassign(user, new)
        \/ \E fee \in Fees : SetProtocolFee(user, fee)
        \/ \E p \in Pools, len \in PoolLens : ReallocatePool(user, p, len)

-----------------------------------------------------------------------------
(* Properties *)

ContractTypeOK ==
    /\ contract_bank_state \in
           [contract_admin: Users, withdraw_authority: Users] \cup {NoAccount}
    /\ contract_bank \in Nat
    /\ protocol_fee_state \in (0..MaxProtocolFee) \cup {NoAccount}
    /\ pool \in [Pools -> SUBSET AuctionIds]
    /\ max_len \in [Pools -> Nat]
    /\ wallet \in [Users -> Nat]

(* From its creation the contract bank keeps its rent-exempt minimum,      *)
(* whatever the withdraw authority takes out: a purged bank would lose the *)
(* two authorities, and with them every administrative instruction, since  *)
(* initialize_contract cannot create the two pools a second time.          *)
ContractBankRentExempt ==
    contract_bank_state # NoAccount => contract_bank >= ContractBankRent
=============================================================================
