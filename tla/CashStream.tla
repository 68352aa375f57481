----------------------------- MODULE CashStream -----------------------------
(***************************************************************************)
(* What one element of the cache promises to the clients that are served   *)
(* from it while another client is still downloading it (README.md:3 of    *)
(* lab32proxy, "download continues while another client downloads").       *)
(*                                                                         *)
(* The response is a byte stream that only grows.  It is unopened until    *)
(* the downloading thread declares its http server connected, open while   *)
(* the server is connected and closed for good afterwards.  Every reader   *)
(* receives a growing prefix of the stream, in order, and a reader that    *)
(* drains a closed stream receives all of it.                              *)
(*                                                                         *)
(* The module is abstract: no locks, no condition variables, no flags.     *)
(* CashElement is shown to implement it.                                   *)
(***************************************************************************)
EXTENDS Naturals

CONSTANTS
    Readers,    \* the client threads served from this element
    MaxLength   \* bound: the most bytes the http server ever sends

VARIABLES
    length,  \* bytes of the response received so far
    phase,   \* "unopened", "open" or "closed"
    sent,    \* bytes delivered to each reader
    mode,    \* "reading", "early", "final" (see Drain) or "cut" (socket error)
    left     \* readers that no longer receive anything

vars == <<length, phase, sent, mode, left>>

TypeOK ==
    /\ length \in 0..MaxLength
    /\ phase \in {"unopened", "open", "closed"}
    /\ sent \in [Readers -> 0..MaxLength]
    /\ mode \in [Readers -> {"reading", "early", "final", "cut"}]
    /\ left \in [Readers -> BOOLEAN]

Init ==
    /\ length = 0
    /\ phase = "unopened"
    /\ sent = [r \in Readers |-> 0]
    /\ mode = [r \in Readers |-> "reading"]
    /\ left = [r \in Readers |-> FALSE]

(* Bytes arrive from the http server, never after the stream is closed. *)
Grow ==
    /\ phase # "closed"
    /\ \E n \in 1..MaxLength : length + n <= MaxLength /\ length' = length + n
    /\ UNCHANGED <<phase, sent, mode, left>>

Open ==
    /\ phase = "unopened"
    /\ phase' = "open"
    /\ UNCHANGED <<length, sent, mode, left>>

Close ==
    /\ phase = "open"
    /\ phase' = "closed"
    /\ UNCHANGED <<length, sent, mode, left>>

(* A reader receives some bytes it has not received yet, and no others. *)
Deliver(r) ==
    /\ ~left[r]
    /\ \E n \in 1..MaxLength :
           /\ sent[r] + n <= length
           /\ sent' = [sent EXCEPT ![r] = @ + n]
    /\ UNCHANGED <<length, phase, mode, left>>

(* A reader finds no server connected and is about to send what is left.  *)
(* Before the stream is open that is premature: the mode remembers which. *)
Drain(r) ==
    /\ mode[r] = "reading"
    /\ ~left[r]
    /\ phase # "open"
    /\ mode' = [mode EXCEPT ![r] = IF phase = "closed" THEN "final" ELSE "early"]
    /\ UNCHANGED <<length, phase, sent, left>>

Cut(r) ==
    /\ ~left[r]
    /\ mode[r] # "cut"
    /\ mode' = [mode EXCEPT ![r] = "cut"]
    /\ UNCHANGED <<length, phase, sent, left>>

(* Only an error lets a reader go before it has all there is. *)
Leave(r) ==
    /\ ~left[r]
    /\ mode[r] = "final" => sent[r] = length
    /\ mode[r] # "reading"
    /\ left' = [left EXCEPT ![r] = TRUE]
    /\ UNCHANGED <<length, phase, sent, mode>>

Next ==
    \/ Grow
    \/ Open
    \/ Close
    \/ \E r \in Readers : Deliver(r) \/ Drain(r) \/ Cut(r) \/ Leave(r)

Spec == Init /\ [][Next]_vars

(* A reader that drained a closed stream and left was given the whole of   *)
(* it: the promise the proxy makes to a client that joins a download       *)
(* (HandlerOneClientImpl.cpp:286-289).                                     *)
WholeResponse ==
    \A r \in Readers :
        left[r] /\ mode[r] = "final" => phase = "closed" /\ sent[r] = length

(* What a reader has received is a prefix that never shrinks, and a stream *)
(* that is closed never grows again (CashElementImpl.cpp:84-89).           *)
PrefixOnly ==
    [][ /\ \A r \in Readers : sent'[r] >= sent[r] /\ sent'[r] <= length'
        /\ phase = "closed" => phase' = "closed" /\ length' = length ]_vars
=============================================================================
