--------------------------- MODULE EpochContract ---------------------------
(***************************************************************************)
(* What the barrier epochs of one memory channel promise, without the      *)
(* counters, queues and cycles that implement them.                        *)
(*                                                                         *)
(* Transactions of a domain are accepted into the domain's open epoch.  A  *)
(* barrier marks a transaction nobody has started and closes the epoch     *)
(* that is open.  A transaction may start only when every transaction of   *)
(* an older epoch of its domain is done, and a marked transaction only     *)
(* when it is the last of its epoch.                                       *)
(***************************************************************************)
EXTENDS Naturals

CONSTANTS
    Txn,        \* transactions
    Domain      \* command sources that are ordered independently

VARIABLES
    domain,     \* the source of each transaction, fixed from the start
    open,       \* the epoch each source is filling
    marked,     \* transactions that carry a barrier
    age,        \* the epoch each accepted transaction belongs to
    accepted,   \* transactions the controller has taken
    started,    \* transactions whose command has been issued
    done        \* transactions that no longer hold their epoch open

vars == <<domain, open, marked, age, accepted, started, done>>

TypeOK ==
    /\ domain \in [Txn -> Domain]
    /\ open \in [Domain -> Nat]
    /\ age \in [Txn -> Nat]
    /\ marked \subseteq Txn
    /\ accepted \subseteq Txn
    /\ started \subseteq accepted
    /\ done \subseteq started

Init ==
    /\ domain \in [Txn -> Domain]
    /\ open = [d \in Domain |-> 0]
    /\ age = [t \in Txn |-> 0]
    /\ marked = {}
    /\ accepted = {}
    /\ started = {}
    /\ done = {}

-----------------------------------------------------------------------------
(* A barrier reaches a transaction that still waits for acceptance: it will *)
(* close its epoch when it is accepted.                                     *)
MarkEarly(t) ==
    /\ t \notin accepted
    /\ marked' = marked \cup {t}
    /\ UNCHANGED <<domain, open, age, accepted, started, done>>

(* A barrier reaches an accepted transaction: the open epoch is closed.     *)
MarkAccepted(t) ==
    /\ t \in accepted \ started
    /\ marked' = marked \cup {t}
    /\ open' = [open EXCEPT ![domain[t]] = @ + 1]
    /\ UNCHANGED <<domain, age, accepted, started, done>>

Accept(t) ==
    /\ t \notin accepted
    /\ accepted' = accepted \cup {t}
    /\ age' = [age EXCEPT ![t] = open[domain[t]]]
    /\ open' = IF t \in marked THEN [open EXCEPT ![domain[t]] = @ + 1] ELSE open
    /\ UNCHANGED <<domain, marked, started, done>>

(* The transactions t has to wait for.                                      *)
Ahead(t) ==
    {u \in accepted \ done :
        /\ u # t
        /\ domain[u] = domain[t]
        /\ age[u] < age[t] \/ (t \in marked /\ age[u] = age[t])}

MayStart(t) == t \in accepted \ started /\ Ahead(t) = {}

(* The command leaves, and the transaction stays open until Finish(t).      *)
Start(t) ==
    /\ MayStart(t)
    /\ started' = started \cup {t}
    /\ UNCHANGED <<domain, open, marked, age, accepted, done>>

(* The command leaves, and nothing later has to wait for its completion.    *)
StartDone(t) ==
    /\ MayStart(t)
    /\ started' = started \cup {t}
    /\ done' = done \cup {t}
    /\ UNCHANGED <<domain, open, marked, age, accepted>>

Finish(t) ==
    /\ t \in started \ done
    /\ done' = done \cup {t}
    /\ UNCHANGED <<domain, open, marked, age, accepted, started>>

Next ==
    \E t \in Txn :
        \/ MarkEarly(t) \/ Accept(t) \/ MarkAccepted(t)
        \/ Start(t) \/ StartDone(t) \/ Finish(t)

Spec == Init /\ [][Next]_vars
=============================================================================
