------------------------------ MODULE AppendLog ------------------------------
(***************************************************************************)
(* What a problem's public ledger promises the agents that write to it.    *)
(*                                                                         *)
(* Every request carries an Idempotency-Key chosen by its caller.  The     *)
(* ledger is a sequence that only grows, and however many requests arrive  *)
(* under one key, concurrently or one after another, at most one of them   *)
(* ever gets an entry.  A request that is answered "ok" is told the        *)
(* position of the entry of its key, and that entry holds the bytes it     *)
(* sent; a request answered "conflict" sent other bytes than the entry of  *)
(* its key; a request answered "refused" left nothing behind.              *)
(***************************************************************************)
EXTENDS Naturals, Sequences

CONSTANTS
    Requests,   \* HTTP requests that reach the Worker
    KeyOf,      \* the caller's Idempotency-Key, per request
    BodyOf      \* the request bytes, as their digest, per request

VARIABLES
    log,        \* the requests whose event is on the ledger, in order
    answers     \* what the caller of each request has been told

vars == <<log, answers>>

Unanswered == [status |-> "none", seq |-> 0]

Init ==
    /\ log = <<>>
    /\ answers = [r \in Requests |-> Unanswered]

(* One event is appended: the first one of its key. *)
Publish(r) ==
    /\ log' = Append(log, r)
    /\ \A i \in 1..Len(log) : KeyOf[log[i]] # KeyOf[r]
    /\ UNCHANGED answers

(* The caller learns where the entry of its key is. *)
Acknowledge(r) ==
    /\ answers[r] = Unanswered
    /\ \E i \in 1..Len(log) :
          /\ KeyOf[log[i]] = KeyOf[r]
          /\ BodyOf[log[i]] = BodyOf[r]
          /\ answers' = [answers EXCEPT ![r] = [status |-> "ok", seq |-> i]]
    /\ UNCHANGED log

(* The caller reused its key for other bytes. *)
Conflict(r) ==
    /\ answers[r] = Unanswered
    /\ \E i \in 1..Len(log) :
          /\ KeyOf[log[i]] = KeyOf[r]
          /\ BodyOf[log[i]] # BodyOf[r]
    /\ answers' = [answers EXCEPT ![r] = [status |-> "conflict", seq |-> 0]]
    /\ UNCHANGED log

(* The caller is told that nothing was published on its behalf. *)
Refuse(r) ==
    /\ answers[r] = Unanswered
    /\ \A i \in 1..Len(log) : log[i] # r
    /\ answers' = [answers EXCEPT ![r] = [status |-> "refused", seq |-> 0]]
    /\ UNCHANGED log

Next == \E r \in Requests : Publish(r) \/ Acknowledge(r) \/ Conflict(r) \/ Refuse(r)

Spec == Init /\ [][Next]_vars
=============================================================================
