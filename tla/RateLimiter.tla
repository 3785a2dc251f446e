------------------------------ MODULE RateLimiter ------------------------------
(***************************************************************************)
(* middleware.RateLimiter for one key ("rate:<ip>:<path>" or               *)
(* "rate:tenant:<id>:<path>"): INCR, then EXPIRE by the request that found  *)
(* no counter, then the comparison with MaxRequests. Redis runs each        *)
(* command atomically; requests interleave between the two commands.        *)
(*                                                                         *)
(* Time is counted in ticks, Window of them to cfg.Window. The comparison   *)
(* reads only what INCR returned, so it is part of that action. The limiter *)
(* fails open: when INCR has an error the request goes on unchecked, without *)
(* a limit to their number in the code. RequestChain puts the limiter into  *)
(* the chain of a request and has the specification.                        *)
(***************************************************************************)
EXTENDS Naturals, Functions

CONSTANTS
  MaxRequests,      \* RateLimitConfig.MaxRequests
  Window,           \* RateLimitConfig.Window, in ticks
  MaxErrors         \* bound of the model: INCRs that have an error within one window

NoTTL == Window + 1      \* stands for the TTL of a key that has none

VARIABLES
  count,            \* the counter, 0 while the key does not exist
  ttl,              \* ticks until Redis deletes the key
  expiring,         \* a request has read 1 and is about to send EXPIRE
  passed,           \* history: passed[i] requests were let through i ticks ago
  unchecked         \* history: those of them whose INCR had an error

vars == <<count, ttl, expiring, passed, unchecked>>

Init ==
  /\ count = 0 /\ ttl = NoTTL /\ expiring = FALSE
  /\ passed = [i \in 0..Window-1 |-> 0] /\ unchecked = passed

\* int(count) > cfg.MaxRequests is refused.
Within(n) == n <= MaxRequests

\* A request is let through now.
LetThrough(history) == [history EXCEPT ![0] = @ + 1]

\* Mutant: every request renews the TTL.
IncrRenews ==
  /\ count' = IF Within(count) THEN count + 1 ELSE count
  /\ expiring' = (expiring \/ count = 0)
  /\ passed' = IF Within(count + 1) THEN LetThrough(passed) ELSE passed
  /\ ttl' = IF count = 0 \/ expiring THEN ttl ELSE Window
  /\ UNCHANGED unchecked

\* INCR creates a missing counter, without a TTL. A refused request has
\* counted all the same; above MaxRequests the model stops counting, since
\* the value makes no difference there.
Incr ==
  /\ count' = IF Within(count) THEN count + 1 ELSE count
  /\ expiring' = (expiring \/ count = 0)
  /\ passed' = IF Within(count + 1) THEN LetThrough(passed) ELSE passed
  /\ UNCHANGED <<ttl, unchecked>>

UncheckedInWindow == SumFunction(unchecked)

\* INCR has an error and the request goes on. Redis may have run the command all
\* the same and only its reply is lost: then the request is counted, and a counter
\* it created has no TTL, since EXPIRE is not sent after an error.
IncrFails ==
  /\ UncheckedInWindow < MaxErrors
  /\ passed' = LetThrough(passed) /\ unchecked' = LetThrough(unchecked)
  /\ \/ UNCHANGED count
     \/ Within(count) /\ count' = count + 1
  /\ UNCHANGED <<ttl, expiring>>

\* Mutant: the TTL is given in a smaller unit.
ExpireTooShort ==
  /\ expiring
  /\ expiring' = FALSE /\ ttl' = 1
  /\ UNCHANGED <<count, passed, unchecked>>

\* The request that found no counter gives it its TTL.
Expire ==
  /\ expiring
  /\ expiring' = FALSE /\ ttl' = Window
  /\ UNCHANGED <<count, passed, unchecked>>

\* The error of EXPIRE is dropped, or the process dies before sending it.
ExpireLost ==
  /\ expiring
  /\ expiring' = FALSE
  /\ UNCHANGED <<count, ttl, passed, unchecked>>

Aged(history) == [i \in 0..Window-1 |-> IF i = 0 THEN 0 ELSE history[i-1]]

\* A tick passes; Redis deletes the key when its TTL is over.
Tick ==
  /\ passed' = Aged(passed) /\ unchecked' = Aged(unchecked)
  /\ count' = IF ttl = 1 THEN 0 ELSE count
  /\ ttl'   = IF ttl \in {1, NoTTL} THEN NoTTL ELSE ttl - 1
  /\ UNCHANGED expiring

-------------------------------------------------------------------------------
(* Correctness.                                                            *)

\* The shape of the counter: only an existing key has a TTL, and only while it
\* has none is a request about to set it. Unchecked requests are let through.
TypeOK ==
  /\ count \in 0..MaxRequests + 1
  /\ ttl \in 1..NoTTL /\ (ttl # NoTTL => count > 0)
  /\ expiring \in BOOLEAN /\ (expiring => count > 0 /\ ttl = NoTTL)
  /\ passed \in [0..Window-1 -> Nat] /\ unchecked \in [0..Window-1 -> Nat]
  /\ \A i \in 0..Window-1 : unchecked[i] <= passed[i]

PassedInWindow == SumFunction(passed)

\* A counter whose EXPIRE was lost or never sent: nothing will ever delete it.
Orphaned == count > 0 /\ ttl = NoTTL /\ ~expiring

\* A request would be refused.
Blocked == ~Within(count + 1)
===============================================================================
