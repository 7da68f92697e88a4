----------------------------- MODULE IspDevice -----------------------------
(***************************************************************************)
(* What the programmer promises a host: each command takes effect at one   *)
(* instant, the flash changes by nothing else, and an answer carries what  *)
(* the last command asked for.  A command the host sends before it has     *)
(* fetched the answer to another one cancels that answer.                   *)
(***************************************************************************)
EXTENDS Protocol

CONSTANT InitialFlashes  \* what the target may hold at the beginning

VARIABLES
    ready,    \* the host may transfer
    request,  \* <<>> or <<p>>: a packet sent and not carried out yet
    pending,  \* the read or identification to answer, <<>> when there is none
    reply,    \* <<>> or <<p>>: an answer the host has not fetched
    flash

vars == <<ready, request, pending, reply, flash>>

Init == /\ ready = FALSE
        /\ request = <<>> /\ pending = <<>> /\ reply = <<>>
        /\ flash \in InitialFlashes

Connection == ready' = ~ready /\ UNCHANGED <<request, pending, reply, flash>>

Send(p) == /\ ready /\ request = <<>>
           /\ request' = <<p>>
           /\ UNCHANGED <<ready, pending, reply, flash>>

Fetch == /\ ready /\ reply # <<>>
         /\ reply' = <<>>
         /\ UNCHANGED <<ready, request, pending, flash>>

\* The command byte of the packet to carry out.
Asks(commands) == /\ request \notin {<<>>, <<<<>>>>}
                  /\ request[1][1] \in commands

Ignore == /\ request = <<<<>>>>
          /\ request' = <<>>
          /\ UNCHANGED <<ready, pending, reply, flash>>

Note == /\ Asks({1, 2})
        /\ pending' = request[1]
        /\ request' = <<>>
        /\ UNCHANGED <<ready, reply, flash>>

ShowLeds == /\ Asks(LedValues)
            /\ pending' = <<>>
            /\ request' = <<>>
            /\ UNCHANGED <<ready, reply, flash>>

Cancel == /\ Asks({3, 4})
          /\ pending' = <<>>
          /\ UNCHANGED <<ready, request, reply, flash>>

Write == /\ Asks({3}) /\ pending = <<>>
         /\ LET p == request[1]
            IN flash' = [flash EXCEPT ![AddressIn(p)] =
                            Programmed(@, [low |-> p[4], high |-> p[5]])]
         /\ request' = <<>>
         /\ UNCHANGED <<ready, pending, reply>>

Erase == /\ Asks({4}) /\ pending = <<>>
         /\ flash' = [a \in Word |-> ErasedWord]
         /\ request' = <<>>
         /\ UNCHANGED <<ready, pending, reply>>

AnswerTo(p) == IF p[1] = 1 THEN Signature ELSE Block(flash, AddressIn(p))

Reply == /\ reply = <<>>
         /\ IF pending = <<>> THEN \E b \in Buttons : reply' = << <<b>> >>
            ELSE reply' = <<AnswerTo(pending)>>
         /\ pending' = <<>>
         /\ UNCHANGED <<ready, request, flash>>

Next == \/ Connection \/ Fetch \/ \E p \in Requests : Send(p)
        \/ Ignore \/ Note \/ ShowLeds \/ Cancel \/ Write \/ Erase \/ Reply

Spec == Init /\ [][Next]_vars
=============================================================================
