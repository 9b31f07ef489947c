------------------------------ MODULE UriNumber ------------------------------
(***************************************************************************)
(* The number in the URI of an NFT auction's master metadata, byte by      *)
(* byte.  The URI is a directory followed by "/<number>.json"; Metaplex    *)
(* pads it with zero bytes.  Closing a cycle counts the number up          *)
(* (increment_uri); claiming a reward replaces it by the number of the     *)
(* cycle claimed, lets the child inherit it, and sets it back              *)
(* (find_edition_number_range_in_uri).  Positions count from 0, as in the  *)
(* code.                                                                   *)
(*                                                                         *)
(* Of the auction there is as much as decides in which order cycles are    *)
(* closed and rewards claimed: whether the current cycle is over, and the  *)
(* counter of unclaimed rewards.  (Auction has the rest; its deletion,     *)
(* after which nothing can be claimed, ends the life of a URI.)            *)
(***************************************************************************)
EXTENDS Naturals, Sequences, FiniteSetsExt, SequencesExt

CONSTANTS
    Directories,        \* the URIs auctions are created with,
    CycleCounts,        \* and their numbers of cycles (0: no end)
    MAX_URI_LENGTH,     \* Metaplex takes no longer URI
    MaxNumber,          \* u64::MAX, of cycles and of what is parsed
    MaxUnclaimed        \* u16::MAX, of unclaimed_rewards

ZERO == "zero"
DigitBytes == <<"0", "1", "2", "3", "4", "5", "6", "7", "8", "9">>
IsDigit(b) == \E i \in DOMAIN DigitBytes : DigitBytes[i] = b

ASSUME UriAssumption ==
    /\ Directories \subseteq Seq(STRING)
    /\ CycleCounts \subseteq Nat
    /\ MAX_URI_LENGTH \in Nat
    /\ MaxNumber \in Nat \ {0}
    /\ MaxUnclaimed \in Nat

VARIABLES
    directory,          \* what the auction was created with,
    number_of_cycles,
    is_repeating,
    current_auction_cycle,
    is_finished,
    is_over,            \* the current cycle has a bid and its time is over
    unclaimed_rewards,
    uri,                \* the master's URI as it is stored
    children            \* the URI of the child of each cycle, or <<>>

config == <<directory, number_of_cycles, is_repeating>>
vars == <<config, current_auction_cycle, is_finished, is_over, unclaimed_rewards,
          uri, children>>

-----------------------------------------------------------------------------
(* Numbers and text *)

(* u64::to_string *)
Digit(n) == DigitBytes[n + 1]

Decimal(n) ==
    LET text[m \in 0..n] == IF m < 10 THEN <<Digit(m)>>
                            ELSE Append(text[m \div 10], Digit(m % 10))
    IN  text[n]

DigitValue(b) == (CHOOSE i \in DOMAIN DigitBytes : DigitBytes[i] = b) - 1

(* u64::from_str takes one sign. *)
Unsigned(text) == IF text # <<>> /\ text[1] = "+" THEN Tail(text) ELSE text

Value(text) ==
    LET digits == Unsigned(text)
        value[i \in 0..Len(digits)] ==
            IF i = 0 THEN 0 ELSE value[i - 1] * 10 + DigitValue(digits[i])
    IN  value[Len(digits)]

IsNumber(text) ==
    /\ Unsigned(text) # <<>>
    /\ \A i \in DOMAIN Unsigned(text) : IsDigit(Unsigned(text)[i])
    /\ Value(text) <= MaxNumber

Slice(s, from, to) == SubSeq(s, from + 1, to)
Truncated(s, len) == SubSeq(s, 1, len)
ReplacedRange(s, from, to, text) ==
    SubSeq(s, 1, from) \o text \o SubSeq(s, to + 1, Len(s))

(* Metaplex pads what it stores. *)
Puffed(s) == s \o [i \in 1..(MAX_URI_LENGTH - Len(s)) |-> ZERO]

-----------------------------------------------------------------------------
(* The search from the end of the URI to its last slash *)

(* The smallest position of byte b in the part searched, or the length. *)
FirstSince(s, start, b) ==
    Min({i \in start..(Len(s) - 1) : s[i + 1] = b} \cup {Len(s)})

(* The position after the last slash, or the length. *)
SlashPos(s) == Max({i \in 1..Len(s) : s[i] = "/"} \cup
                   (IF Contains(s, "/") THEN {} ELSE {Len(s)}))

SearchStart(s) == IF Contains(s, "/") THEN SlashPos(s) ELSE 0

(* Fault: the search does not stop at the slash. *)
AnyDotPos(s) == FirstSince(s, 0, ".")

DotPos(s) == FirstSince(s, SearchStart(s), ".")
LastPos(s) == FirstSince(s, SearchStart(s), ZERO)

(* Neither function succeeds otherwise: it returns an error, or panics on  *)
(* a range beyond the truncated URI or on what is not a number.            *)
HasNumber(s) ==
    /\ LastPos(s) # 0 /\ DotPos(s) # 0 /\ SlashPos(s) # 0
    /\ SlashPos(s) <= DotPos(s) /\ DotPos(s) <= LastPos(s)
    /\ IsNumber(Slice(s, SlashPos(s), DotPos(s)))

Number(s) == Value(Slice(s, SlashPos(s), DotPos(s)))

(* Fault: the number is overwritten byte by byte. *)
OverwrittenNumber(s, n) ==
    LET t == Truncated(s, LastPos(s))
    IN  ReplacedRange(t, SlashPos(s), SlashPos(s) + Len(Decimal(n)), Decimal(n))

(* The URI without its padding, with the number n. *)
WithNumber(s, n) ==
    ReplacedRange(Truncated(s, LastPos(s)), SlashPos(s), DotPos(s), Decimal(n))

CanIncrement(s, is_last_cycle) ==
    HasNumber(s) /\ (is_last_cycle \/ Number(s) < MaxNumber)

IncrementUri(s, is_last_cycle) ==
    WithNumber(s, IF is_last_cycle THEN 0 ELSE Number(s) + 1)

-----------------------------------------------------------------------------
(* The URI in the life of an auction *)

Suffix == <<".", "j", "s", "o", "n">>

Fits(s) == Len(s) <= MAX_URI_LENGTH

(* initialize_create_metadata_args *)
Init ==
    /\ directory \in Directories
    /\ number_of_cycles \in CycleCounts
    /\ is_repeating \in BOOLEAN
    /\ LET new == directory \o <<"/", IF is_repeating THEN "0" ELSE "1">> \o Suffix
       IN  Fits(new) /\ uri = Puffed(new)
    /\ current_auction_cycle = 1
    /\ is_finished = FALSE
    /\ is_over = FALSE
    /\ unclaimed_rewards = 0
    /\ children = [n \in 1..1 |-> <<>>]

(* The time of the current cycle passes, after somebody placed a bid.      *)
CycleEnds ==
    /\ ~is_finished /\ ~is_over
    /\ is_over' = TRUE
    /\ UNCHANGED <<config, current_auction_cycle, is_finished, unclaimed_rewards, uri,
                   children>>

(* A bid on an auction that sits in the secondary pool reopens its cycle,  *)
(* whether or not its reward has been claimed.                             *)
Reactivate ==
    /\ ~is_finished /\ is_over
    /\ is_over' = FALSE
    /\ UNCHANGED <<config, current_auction_cycle, is_finished, unclaimed_rewards, uri,
                   children>>

IsLastAuctionCycle ==
    number_of_cycles > 0 /\ current_auction_cycle >= number_of_cycles

CanClose ==
    /\ ~is_finished /\ is_over
    /\ IsLastAuctionCycle \/ current_auction_cycle < MaxNumber
    /\ unclaimed_rewards < MaxUnclaimed
    /\ ~is_repeating =>
           /\ CanIncrement(uri, IsLastAuctionCycle)
           /\ Fits(IncrementUri(uri, IsLastAuctionCycle))

(* A cycle with a bid is closed. *)
CloseCycle ==
    /\ CanClose
    /\ uri' = IF is_repeating THEN uri ELSE Puffed(IncrementUri(uri, IsLastAuctionCycle))
    /\ IF IsLastAuctionCycle
       THEN is_finished' = TRUE /\ UNCHANGED <<current_auction_cycle, is_over, children>>
       ELSE /\ current_auction_cycle' = current_auction_cycle + 1
            /\ is_over' = FALSE
            /\ children' = Append(children, <<>>)
            /\ UNCHANGED is_finished
    /\ unclaimed_rewards' = unclaimed_rewards + 1
    /\ UNCHANGED config

(* A reward is due as soon as its cycle is over, closed or not, and only   *)
(* once; the counter may refuse it nevertheless (checked_sub).             *)
IsDue(n) ==
    /\ n < current_auction_cycle \/ is_over
    /\ children[n] = <<>>

CanClaim(n) ==
    LET renumbered == WithNumber(uri, n)
    IN  /\ IsDue(n) /\ unclaimed_rewards > 0
        /\ HasNumber(uri) /\ Fits(renumbered) /\ HasNumber(renumbered)

(* Fault: the child is created before the URI gets its number. *)
ClaimUnnumbered(n) ==
    /\ CanClaim(n)
    /\ children' = [children EXCEPT ![n] = uri]
    /\ unclaimed_rewards' = unclaimed_rewards - 1
    /\ UNCHANGED <<config, current_auction_cycle, is_finished, is_over, uri>>

(* The child of cycle n inherits the URI with the number n; then the       *)
(* number read before is put back.                                         *)
ClaimRewards(n) ==
    LET renumbered == WithNumber(uri, n)
    IN  /\ CanClaim(n)
        /\ children' = [children EXCEPT ![n] = Puffed(renumbered)]
        /\ uri' = Puffed(WithNumber(renumbered, Number(uri)))
        /\ unclaimed_rewards' = unclaimed_rewards - 1
        /\ UNCHANGED <<config, current_auction_cycle, is_finished, is_over>>

Next ==
    \/ CycleEnds \/ Reactivate \/ CloseCycle
    \/ \E n \in DOMAIN children : ClaimRewards(n)

Spec == Init /\ [][Next]_vars

-----------------------------------------------------------------------------
(* Properties *)

Numbered(n) == directory \o <<"/">> \o Decimal(n) \o Suffix

(* Whatever bytes the directory consists of, and in whichever order cycles *)
(* are closed and rewards claimed (that of the open cycle included), the   *)
(* master's URI stays the directory with the number of the running cycle   *)
(* (0 for a repeating or a finished auction) and nothing else but padding, *)
(* also when the numbers put in and taken out differ in length.            *)
MasterUriShowsCycle ==
    uri = Puffed(Numbered(IF is_repeating \/ is_finished THEN 0
                          ELSE current_auction_cycle))

(* A child shows the cycle it is the reward of, also when it was claimed   *)
(* before that cycle was closed or after later ones were.                  *)
ChildUriShowsCycle ==
    \A n \in DOMAIN children :
        children[n] # <<>> => children[n] = Puffed(Numbered(n))

(* The URI keeps a cycle from being closed, or a due reward from being     *)
(* claimed, in no other way than by its length: as far as the counter of   *)
(* unclaimed rewards and the cycle number allow, both succeed unless the   *)
(* number needed makes the URI too long.  (That can happen: nothing is     *)
(* reserved for longer numbers when the auction is created.  A cycle then  *)
(* stays open for ever; in a repeating auction the cycles go on and their  *)
(* rewards cannot be claimed.)                                             *)
UriStopsByLengthOnly ==
    /\ (/\ ~is_finished /\ is_over /\ unclaimed_rewards < MaxUnclaimed
        /\ \/ IsLastAuctionCycle
           \/ /\ current_auction_cycle < MaxNumber
              /\ is_repeating \/ Fits(Numbered(current_auction_cycle + 1))) => CanClose
    /\ \A n \in DOMAIN children :
           (IsDue(n) /\ unclaimed_rewards > 0 /\ Fits(Numbered(n))) => CanClaim(n)

=============================================================================
