----------------------------- MODULE ClaimLedger -----------------------------
(***************************************************************************)
(* What a reward claim promises, whoever carries it out: the contract that *)
(* packages/server/src/testing/compliance.ts asks of a persistence adapter *)
(* together with the user limit of claimReward.  The ledger only knows the *)
(* tickets that were issued.                                               *)
(***************************************************************************)
EXTENDS Integers, FiniteSets

CONSTANTS
  NoLimit,     \* the absent limit
  Users, Rewards, Tickets, StockKeys,
  KeyOf,       \* [Tickets -> the idempotency key of the claim that issues it]
  Draws,       \* [Rewards -> the buckets a ticket is drawn from]
  Level,       \* [StockKeys -> what a bucket holds at the start, or NoLimit]
  PerUser      \* [Rewards -> the tickets a user may have, or NoLimit]

(* What the promises need of the constants.                                *)
LedgerAssumption ==
  /\ NoLimit \notin Nat
  /\ IsFiniteSet(Tickets)
  /\ Draws \in [Rewards -> SUBSET StockKeys]
  /\ Level \in [StockKeys -> Nat \union {NoLimit}]
  /\ PerUser \in [Rewards -> Nat \union {NoLimit}]

VARIABLE issued   \* the tickets issued: [user, reward, ticket]

Entries == [user : Users, reward : Rewards, ticket : Tickets]

DrawnFrom(b) == {c \in issued : b \in Draws[c.reward]}

OwnedBy(u, rw) == {c \in issued : c.user = u /\ c.reward = rw}

Below(limit, entries) == limit # NoLimit => Cardinality(entries) < limit

Init == issued = {}

(* One claim succeeds: its key is new, every bucket has stock left, and    *)
(* the user is below the limit.                                            *)
Issue(u, rw, t) ==
  /\ \A c \in issued : KeyOf[c.ticket] # KeyOf[t]
  /\ \A b \in Draws[rw] : Below(Level[b], DrawnFrom(b))
  /\ Below(PerUser[rw], OwnedBy(u, rw))
  /\ issued' = issued \union {[user |-> u, reward |-> rw, ticket |-> t]}

Next == \E u \in Users, rw \in Rewards, t \in Tickets : Issue(u, rw, t)

Spec == Init /\ [][Next]_issued

-----------------------------------------------------------------------------

TypeOK == issued \subseteq Entries

(* No bucket gives out more than it held.                                  *)
NeverOversold ==
  \A b \in StockKeys : Level[b] # NoLimit => Cardinality(DrawnFrom(b)) <= Level[b]

(* No user has more tickets of a reward than allowed.                      *)
WithinLimits ==
  \A u \in Users, rw \in Rewards :
    PerUser[rw] # NoLimit => Cardinality(OwnedBy(u, rw)) <= PerUser[rw]

(* One idempotency key buys one ticket.                                    *)
OneTicketPerKey ==
  \A c1, c2 \in issued : KeyOf[c1.ticket] = KeyOf[c2.ticket] => c1 = c2
==============================================================================
