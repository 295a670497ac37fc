----------------------------- MODULE AskAnswer ------------------------------
(***************************************************************************)
(* What a request/response client promises to its caller: requests are     *)
(* answered one at a time and in order, each one by its own response, and  *)
(* an answer is never revised.  On a fallible link a request may also end  *)
(* with a timeout, or with frames that are not those of its response.      *)
(***************************************************************************)
EXTENDS Naturals

CONSTANTS
    Requests      \* number of requests the caller makes

VARIABLES
    fallible,     \* may a request end without its response?
    asked,        \* number of the latest request
    outcome       \* per request
vars == <<fallible, asked, outcome>>

Init ==
    /\ fallible \in BOOLEAN
    /\ asked = 0
    /\ outcome = [k \in 1..Requests |-> "none"]

\* The next request is made when the one before it has ended.
Ask ==
    /\ asked < Requests
    /\ asked > 0 => outcome[asked] # "none"
    /\ asked' = asked + 1
    /\ UNCHANGED <<fallible, outcome>>

\* The request gets the response that belongs to it.
Answer ==
    /\ asked > 0 /\ outcome[asked] = "none"
    /\ outcome' = [outcome EXCEPT ![asked] = "own"]
    /\ UNCHANGED <<fallible, asked>>

\* The request goes wrong.
Fail ==
    /\ fallible
    /\ asked > 0 /\ outcome[asked] = "none"
    /\ \E o \in {"timeout", "other"} : outcome' = [outcome EXCEPT ![asked] = o]
    /\ UNCHANGED <<fallible, asked>>

Next == Ask \/ Answer \/ Fail

Spec == Init /\ [][Next]_vars /\ WF_vars(Next)
=============================================================================
