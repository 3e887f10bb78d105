---------------------------- MODULE SentinelClient ----------------------------
(***************************************************************************)
(* SentinelClient: requests to the sentinel daemon over a Unix socket, one *)
(* line of JSON each, answered in any order, matched by their id and given *)
(* up after a timeout.  The daemon and the operating system are external:  *)
(* a connection may end at any moment, also in the middle of a line.       *)
(* Source: packages/swt3-ai-ts/src/sentinel-client.ts.                     *)
(*                                                                         *)
(* A line comes in two pieces, its text and its end, each of which may     *)
(* come in a chunk of its own.  A program connects when it sees that the   *)
(* client is not connected, as connectSentinel does.                       *)
(***************************************************************************)
EXTENDS SequencesExt, FiniteSetsExt

CONSTANTS
    Requests,     \* the requests of the program; each is its own id
    MaxSockets    \* bound: calls of connect()

ASSUME SocketsAssumption == MaxSockets \in Nat

Sockets == 1..MaxSockets

VARIABLES
    socket,     \* this.socket, 0 if null
    connected,  \* this._connected
    pending,    \* the keys of this.pending
    buffer,     \* this.buffer: what came since the last end of a line
    state,      \* of each socket
    opening,    \* the promise that connect() returned, for each socket
    sent,       \* requests written to a socket, not yet answered
    inbound,    \* pieces of answers on their way, for each socket
    outcome,    \* of the promise of each request
    said,       \* history: what the daemon answered to a request
    missed,     \* history: requests whose answer came while they waited and settled nothing
    cut         \* history: answers whose line was cut by the end of their connection

vars == <<socket, connected, pending, buffer, state, opening, sent, inbound, outcome,
          said, missed, cut>>

States == {"none", "connecting", "open", "ending", "destroyed", "closed"}
Answers == {"ok", "error"}
\* "lost" stands for every rejection that does not come from the daemon's answer.
Outcomes == {"none", "waiting", "timeout", "lost"} \cup Answers

Text(r) == [of |-> r, end |-> FALSE]
End(r) == [of |-> r, end |-> TRUE]

Init ==
    /\ socket = 0
    /\ connected = FALSE
    /\ pending = {}
    /\ buffer = <<>>
    /\ state = [k \in Sockets |-> "none"]
    /\ opening = [k \in Sockets |-> "none"]
    /\ sent = [k \in Sockets |-> {}]
    /\ inbound = [k \in Sockets |-> <<>>]
    /\ outcome = [r \in Requests |-> "none"]
    /\ said = [r \in Requests |-> "none"]
    /\ missed = {}
    /\ cut = {}

---------------------------------------------------------------------------
Settle(rs, o) == outcome' = [r \in Requests |-> IF r \in rs THEN o ELSE outcome[r]]

(* rejectAllPending: the timers are cleared with the entries. *)
RejectAllPending == Settle(pending, "lost") /\ pending' = {}

(* connect: a socket is made and becomes the client's at once. *)
Connect(k) ==
    /\ ~connected
    /\ state[k] = "none" /\ \A j \in 1..(k - 1) : state[j] \in {"destroyed", "closed"}
    /\ socket' = k
    /\ state' = [state EXCEPT ![k] = "connecting"]
    /\ opening' = [opening EXCEPT ![k] = "waiting"]
    /\ UNCHANGED <<connected, pending, buffer, sent, inbound, outcome, said, missed, cut>>

(* A destroyed socket says so in the same turn of the event loop: no later one *)
(* has opened by then.                                                         *)
Opened(k) ==
    /\ state[k] = "connecting" /\ \A j \in 1..(k - 1) : state[j] = "closed"
    /\ connected' = TRUE
    /\ state' = [state EXCEPT ![k] = "open"]
    /\ opening' = [opening EXCEPT ![k] = "resolved"]
    /\ UNCHANGED <<socket, pending, buffer, sent, inbound, outcome, said, missed, cut>>

(* The error event, also of a connection that is refused.  Node destroys the socket: *)
(* what is still on its way is not read.                                             *)
Error(k) ==
    /\ state[k] \in {"connecting", "open", "ending"}
    /\ connected' = FALSE
    /\ RejectAllPending
    /\ state' = [state EXCEPT ![k] = "destroyed"]
    /\ opening' = [opening EXCEPT ![k] = IF @ = "waiting" THEN "rejected" ELSE @]
    /\ inbound' = [inbound EXCEPT ![k] = <<>>]
    /\ UNCHANGED <<socket, buffer, sent, said, missed, cut>>

(* The daemon ends the connection, perhaps in the middle of its last line. *)
PeerEnds(k) ==
    /\ state[k] = "open"
    /\ state' = [state EXCEPT ![k] = "ending"]
    /\ \E n \in 0..Len(inbound[k]) :
        inbound' = [inbound EXCEPT ![k] = SubSeq(@, 1, n)]
    /\ UNCHANGED <<socket, connected, pending, buffer, opening, sent, outcome, said, missed, cut>>

(* The close event: when what came before the end has been read, or after destroy. *)
(* The line that was begun stays in the buffer.                                    *)
Closed(k) ==
    /\ \/ state[k] = "ending" /\ inbound[k] = <<>>
       \/ state[k] = "destroyed"
    /\ connected' = FALSE
    /\ RejectAllPending
    /\ state' = [state EXCEPT ![k] = "closed"]
    /\ cut' = cut \cup {piece.of : piece \in Range(buffer)}
    /\ UNCHANGED <<socket, buffer, opening, sent, inbound, said, missed>>

(* destroy: a connect() under way is never told. *)
Destroy ==
    /\ RejectAllPending
    /\ socket' = 0
    /\ connected' = FALSE
    /\ IF socket # 0 /\ state[socket] \in {"connecting", "open", "ending"}
       THEN /\ state' = [state EXCEPT ![socket] = "destroyed"]
            /\ inbound' = [inbound EXCEPT ![socket] = <<>>]
       ELSE UNCHANGED <<state, inbound>>
    /\ UNCHANGED <<buffer, opening, sent, said, missed, cut>>

---------------------------------------------------------------------------
(* request: rejected at once without a connection.  A write to a socket whose peer *)
(* has gone is lost.                                                               *)
Request(r) ==
    /\ outcome[r] = "none"
    /\ IF socket = 0 \/ ~connected
       THEN Settle({r}, "lost") /\ UNCHANGED <<pending, sent>>
       ELSE /\ Settle({r}, "waiting")
            /\ pending' = pending \cup {r}
            /\ sent' = [sent EXCEPT ![socket] = IF state[socket] = "open" THEN @ \cup {r} ELSE @]
    /\ UNCHANGED <<socket, connected, buffer, state, opening, inbound, said, missed, cut>>

\* Definitions marked "Fault:" are the same code with one mistake in it.  They are no
\* part of the specification: each is what some property rules out.

\* Fault: the entry stays in the map.
TimeoutLeavesEntry(r) ==
    /\ r \in pending
    /\ Settle({r}, "timeout")
    /\ UNCHANGED <<socket, connected, pending, buffer, state, opening, sent, inbound, said,
                   missed, cut>>

\* Fault: there is no timer while the connection is open.
TimeoutOnClose(r) ==
    /\ r \in pending /\ state[socket] # "open"
    /\ pending' = pending \ {r}
    /\ Settle({r}, "timeout")
    /\ UNCHANGED <<socket, connected, buffer, state, opening, sent, inbound, said, missed, cut>>

Timeout(r) ==
    /\ r \in pending
    /\ pending' = pending \ {r}
    /\ Settle({r}, "timeout")
    /\ UNCHANGED <<socket, connected, buffer, state, opening, sent, inbound, said, missed, cut>>

(* The daemon answers, as late as it likes. *)
Reply(k, r, answer) ==
    /\ state[k] = "open" /\ r \in sent[k]
    /\ sent' = [sent EXCEPT ![k] = @ \ {r}]
    /\ said' = [said EXCEPT ![r] = answer]
    /\ inbound' = [inbound EXCEPT ![k] = @ \o <<Text(r), End(r)>>]
    /\ UNCHANGED <<socket, connected, pending, buffer, state, opening, outcome, missed, cut>>

\* Fault: the end of a line is kept in the buffer like its text.
DataKeepsEnd(k) ==
    /\ state[k] \in {"open", "ending"} /\ inbound[k] # <<>>
    /\ inbound' = [inbound EXCEPT ![k] = Tail(@)]
    /\ buffer' = Append(buffer, Head(inbound[k]))
    /\ UNCHANGED <<socket, connected, pending, state, opening, sent, outcome, said, missed, cut>>

\* Fault: a line that was parsed stays in the buffer.
DataKeepsLine(k) ==
    /\ state[k] \in {"open", "ending"} /\ inbound[k] # <<>>
    /\ inbound' = [inbound EXCEPT ![k] = Tail(@)]
    /\ LET r == Head(inbound[k]).of
       IN  IF ~Head(inbound[k]).end
           THEN buffer' = Append(buffer, Head(inbound[k])) /\ UNCHANGED <<pending, outcome, missed>>
           ELSE IF buffer = <<Text(r)>> /\ r \in pending
           THEN pending' = pending \ {r} /\ Settle({r}, said[r]) /\ UNCHANGED <<buffer, missed>>
           ELSE missed' = missed \cup ({r} \cap pending) /\ UNCHANGED <<buffer, pending, outcome>>
    /\ UNCHANGED <<socket, connected, state, opening, sent, said, cut>>

(* onData, for a piece: the end of a line makes it be parsed.  It is an answer if it is *)
(* one text and nothing else; any other line is skipped, as is an answer nobody awaits. *)
Data(k) ==
    /\ state[k] \in {"open", "ending"} /\ inbound[k] # <<>>
    /\ inbound' = [inbound EXCEPT ![k] = Tail(@)]
    /\ LET piece == Head(inbound[k])
           r == piece.of
           parsed == buffer = <<Text(r)>>
       IN  IF ~piece.end
           THEN buffer' = Append(buffer, piece) /\ UNCHANGED <<pending, outcome, missed>>
           ELSE /\ buffer' = <<>>
                /\ IF parsed /\ r \in pending
                   THEN pending' = pending \ {r} /\ Settle({r}, said[r])
                   ELSE UNCHANGED <<pending, outcome>>
                /\ missed' = IF ~parsed /\ r \in pending THEN missed \cup {r} ELSE missed
    /\ UNCHANGED <<socket, connected, state, opening, sent, said, cut>>

Next ==
    \/ \E k \in Sockets :
        \/ Connect(k) \/ Opened(k) \/ Error(k) \/ PeerEnds(k) \/ Closed(k) \/ Data(k)
        \/ \E r \in Requests, answer \in Answers : Reply(k, r, answer)
    \/ \E r \in Requests : Request(r) \/ Timeout(r)
    \/ Destroy

(* Timers fire, events are delivered, and the system accepts a connection or not. *)
Fairness ==
    /\ \A r \in Requests : WF_vars(Timeout(r))
    /\ \A k \in Sockets :
        /\ WF_vars(Opened(k) \/ (state[k] = "connecting" /\ Error(k)))
        /\ WF_vars(Data(k)) /\ WF_vars(Closed(k))

Spec == Init /\ [][Next]_vars /\ Fairness
---------------------------------------------------------------------------
TypeOK ==
    /\ socket \in {0} \cup Sockets
    /\ connected \in BOOLEAN
    /\ pending \subseteq Requests
    /\ buffer \in Seq([of : Requests, end : {FALSE}])
    /\ state \in [Sockets -> States]
    /\ opening \in [Sockets -> {"none", "waiting", "resolved", "rejected"}]
    /\ sent \in [Sockets -> SUBSET Requests]
    /\ inbound \in [Sockets -> Seq([of : Requests, end : BOOLEAN])]
    /\ outcome \in [Requests -> Outcomes]
    /\ said \in [Requests -> {"none"} \cup Answers]
    /\ missed \subseteq Requests
    /\ cut \subseteq Requests

\* A request waits exactly as long as the map has it, so that whatever ends the wait, an
\* answer, the timer, the end of the connection or destroy(), none is forgotten and none
\* kept; one that waits does so on a connection that is there; and it gets the daemon's
\* answer to it or none, never the answer to another.
OwnAnswer ==
    /\ pending = {r \in Requests : outcome[r] = "waiting"}
    /\ pending # {} => connected /\ socket # 0 /\ state[socket] \in {"open", "ending"}
    /\ \A r \in Requests : outcome[r] \in Answers => outcome[r] = said[r]

\* An answer that comes in full while its request waits settles it, but for one after each
\* line that the end of a connection has cut: the rest of it is not cleared, and spoils
\* the first line of the next connection.
OneMissedPerCut == Cardinality(missed) <= Cardinality(cut)

\* Every request settles, and so does every connect() that destroy() does not overtake.
EventuallySettled ==
    /\ \A r \in Requests : outcome[r] = "waiting" ~> outcome[r] # "waiting"
    /\ \A k \in Sockets : opening[k] = "waiting" ~> (opening[k] # "waiting" \/ state[k] = "closed")
=============================================================================
