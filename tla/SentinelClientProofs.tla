------------------------ MODULE SentinelClientProofs ------------------------
(***************************************************************************)
(* Proofs about SentinelClient, for every set of requests and any number   *)
(* of connections.                                                         *)
(*                                                                         *)
(* OwnAnswer is not inductive: that an answer is the request's own depends *)
(* on what is still on its way, and that a waiting request has a           *)
(* connection on there being one live socket, the client's.                *)
(*                                                                         *)
(* OneMissedPerCut follows from a balance (Balanced): what has been missed *)
(* and the line that the framing buffer will spoil next are together no    *)
(* more than the lines cut.                                                *)
(***************************************************************************)
EXTENDS SentinelClient, FiniteSetTheorems, SequenceTheorems, TLAPS

Live == {"connecting", "open", "ending"}

\* Sockets are made one after the other; the client's is the only live one, and it is
\* live when the client says so.
OneConnection ==
    /\ \A j, k \in Sockets : j < k /\ state[k] # "none" => state[j] # "none"
    /\ \A k \in Sockets : state[k] \in Live => socket = k
    /\ connected => socket # 0 /\ state[socket] \in {"open", "ending"}

\* A request the daemon has not answered is written to one connection at most; what is
\* on its way back belongs to one it has answered.
OnItsWay ==
    /\ \A r \in Requests : outcome[r] = "none" => said[r] = "none"
    /\ \A k \in Sockets : \A r \in sent[k] : said[r] = "none" /\ outcome[r] # "none"
    /\ \A j, k \in Sockets : j # k => sent[j] \cap sent[k] = {}
    /\ \A k \in Sockets : \A i \in DOMAIN inbound[k] : said[inbound[k][i].of] \in Answers

IInv == TypeOK /\ OwnAnswer /\ OneConnection /\ OnItsWay

-----------------------------------------------------------------------------
\* What a prefix or a tail of the pieces on their way holds was on its way before.
LEMMA Shorter ==
    ASSUME NEW S, NEW s \in Seq(S), NEW n \in 0..Len(s)
    PROVE  /\ SubSeq(s, 1, n) \in Seq(S)
           /\ \A i \in DOMAIN SubSeq(s, 1, n) : SubSeq(s, 1, n)[i] = s[i] /\ i \in DOMAIN s
OBVIOUS

LEMMA Element ==
    ASSUME NEW S, NEW s \in Seq(S), NEW i \in DOMAIN s
    PROVE  s[i] \in S
OBVIOUS

LEMMA Longer ==
    ASSUME NEW S, NEW s \in Seq(S), NEW e \in S
    PROVE  Append(s, e) \in Seq(S)
OBVIOUS

LEMMA Behead ==
    ASSUME NEW S, NEW s \in Seq(S), s # <<>>
    PROVE  /\ Head(s) = s[1] /\ 1 \in DOMAIN s
           /\ Tail(s) \in Seq(S)
           /\ \A i \in DOMAIN Tail(s) : Tail(s)[i] = s[i + 1] /\ i + 1 \in DOMAIN s
OBVIOUS

\* Whatever has not answered anything and leaves the pieces, or takes some away.
LEMMA StaysOnItsWay ==
    ASSUME IInv, UNCHANGED <<said, sent>>,
           \A r \in Requests : outcome'[r] = "none" <=> outcome[r] = "none",
           \A j \in Sockets : \A i \in DOMAIN inbound'[j] :
              \E h \in DOMAIN inbound[j] : inbound'[j][i] = inbound[j][h]
    PROVE  OnItsWay'
<1>1. OnItsWay /\ sent \in [Sockets -> SUBSET Requests]
  BY DEF IInv, TypeOK
<1> QED
  BY <1>1 DEF OnItsWay

LEMMA EmptyInbound ==
    ASSUME IInv, NEW k \in Sockets, inbound' = [inbound EXCEPT ![k] = <<>>]
    PROVE  /\ inbound' \in [Sockets -> Seq([of : Requests, end : BOOLEAN])]
           /\ \A j \in Sockets : \A i \in DOMAIN inbound'[j] :
                \E h \in DOMAIN inbound[j] : inbound'[j][i] = inbound[j][h]
<1>1. inbound \in [Sockets -> Seq([of : Requests, end : BOOLEAN])]
  BY DEF IInv, TypeOK
<1>2. <<>> \in Seq([of : Requests, end : BOOLEAN]) /\ DOMAIN <<>> = {}
  OBVIOUS
<1> QED
  BY <1>1, <1>2

THEOREM InitIInv == Init => IInv
<1> SUFFICES ASSUME Init PROVE IInv
  OBVIOUS
<1>1. TypeOK
  <2>1. buffer \in Seq([of : Requests, end : {FALSE}])
    BY DEF Init
  <2>2. inbound \in [Sockets -> Seq([of : Requests, end : BOOLEAN])]
    BY DEF Init
  <2> QED
    BY <2>1, <2>2 DEF Init, TypeOK, States, Outcomes
<1>2. OwnAnswer
  BY DEF Init, OwnAnswer, Answers
<1>3. OneConnection
  BY DEF Init, OneConnection, Live
<1>4. OnItsWay
  <2>1. \A k \in Sockets : DOMAIN inbound[k] = {}
    BY DEF Init
  <2> QED
    BY <2>1 DEF Init, OnItsWay
<1> QED
  BY <1>1, <1>2, <1>3, <1>4 DEF IInv

\* Rejecting all that waits leaves none waiting, and gives no answer.
LEMMA RejectKeeps ==
    ASSUME IInv, RejectAllPending
    PROVE  /\ outcome' \in [Requests -> Outcomes]
           /\ pending' = {}
           /\ \A r \in Requests : outcome'[r] # "waiting"
           /\ \A r \in Requests : outcome'[r] = outcome[r] \/ outcome'[r] = "lost"
           /\ \A r \in Requests : outcome'[r] = "none" <=> outcome[r] = "none"
BY DEF IInv, TypeOK, OwnAnswer, RejectAllPending, Settle, Outcomes

-----------------------------------------------------------------------------
LEMMA ConnectKeeps ==
    ASSUME IInv, NEW k \in Sockets, Connect(k) PROVE IInv'
<1>1. TypeOK'
  BY DEF IInv, TypeOK, Connect, States
<1>2. OwnAnswer'
  BY DEF IInv, OwnAnswer, Connect
<1>3. OneConnection'
  <2>1. /\ socket' = k /\ connected' = FALSE /\ state[k] = "none"
        /\ state' = [state EXCEPT ![k] = "connecting"]
        /\ \A j \in 1..(k - 1) : state[j] \in {"destroyed", "closed"}
    BY DEF Connect, IInv, TypeOK
  <2>2. \A j \in Sockets : j < k => state[j] \in {"destroyed", "closed"}
    BY <2>1, SocketsAssumption DEF Sockets
  <2>3. \A j \in Sockets : j > k => state[j] = "none"
    BY <2>1 DEF IInv, OneConnection
  <2>4. state \in [Sockets -> States]
    BY DEF IInv, TypeOK
  <2>5. \A j \in Sockets : j < k \/ j = k \/ j > k
    BY SocketsAssumption DEF Sockets
  <2>6. \A j \in Sockets : state'[j] \in Live => j = k
    BY <2>1, <2>2, <2>3, <2>4, <2>5 DEF Live
  <2>7. \A i, j \in Sockets : i < j /\ state'[j] # "none" => state'[i] # "none"
    BY <2>1, <2>2, <2>4, <2>5 DEF IInv, OneConnection
  <2> QED
    BY <2>1, <2>6, <2>7 DEF OneConnection
<1>4. OnItsWay'
  BY StaysOnItsWay DEF Connect
<1> QED
  BY <1>1, <1>2, <1>3, <1>4 DEF IInv

LEMMA OpenedKeeps ==
    ASSUME IInv, NEW k \in Sockets, Opened(k) PROVE IInv'
<1>1. TypeOK'
  BY DEF IInv, TypeOK, Opened, States
<1>2. OwnAnswer'
  BY SocketsAssumption DEF IInv, TypeOK, OwnAnswer, OneConnection, Opened, Live, Sockets
<1>3. OneConnection'
  BY SocketsAssumption DEF IInv, TypeOK, OneConnection, Opened, Live, Sockets
<1>4. OnItsWay'
  BY StaysOnItsWay DEF Opened
<1> QED
  BY <1>1, <1>2, <1>3, <1>4 DEF IInv

LEMMA ErrorKeeps ==
    ASSUME IInv, NEW k \in Sockets, Error(k) PROVE IInv'
<1>1. RejectAllPending
  BY DEF Error
<1>6. /\ inbound' \in [Sockets -> Seq([of : Requests, end : BOOLEAN])]
      /\ \A j \in Sockets : \A i \in DOMAIN inbound'[j] :
            \E h \in DOMAIN inbound[j] : inbound'[j][i] = inbound[j][h]
  BY EmptyInbound DEF Error
<1>2. TypeOK'
  BY <1>1, <1>6, RejectKeeps DEF IInv, TypeOK, Error, States
<1>3. OwnAnswer'
  BY <1>1, RejectKeeps DEF IInv, OwnAnswer, Error, Answers
<1>4. OneConnection'
  BY DEF IInv, TypeOK, OneConnection, Error, Live
<1>5. OnItsWay'
  <2>1. \A r \in Requests : outcome'[r] = "none" <=> outcome[r] = "none"
    BY <1>1, RejectKeeps
  <2>2. UNCHANGED <<said, sent>>
    BY DEF Error
  <2> QED
    BY <1>6, <2>1, <2>2, StaysOnItsWay
<1> QED
  BY <1>2, <1>3, <1>4, <1>5 DEF IInv

LEMMA PeerEndsKeeps ==
    ASSUME IInv, NEW k \in Sockets, PeerEnds(k) PROVE IInv'
<1>1. PICK n \in 0..Len(inbound[k]) : inbound' = [inbound EXCEPT ![k] = SubSeq(@, 1, n)]
  BY DEF PeerEnds
<1>2. inbound[k] \in Seq([of : Requests, end : BOOLEAN])
  BY DEF IInv, TypeOK
<1>3. /\ SubSeq(inbound[k], 1, n) \in Seq([of : Requests, end : BOOLEAN])
      /\ \A i \in DOMAIN SubSeq(inbound[k], 1, n) :
            SubSeq(inbound[k], 1, n)[i] = inbound[k][i] /\ i \in DOMAIN inbound[k]
  BY <1>2, Shorter
<1>4. TypeOK'
  BY <1>1, <1>3 DEF IInv, TypeOK, PeerEnds, States
<1>5. OwnAnswer'
  BY DEF IInv, TypeOK, OwnAnswer, PeerEnds
<1>6. OneConnection'
  BY SocketsAssumption DEF IInv, TypeOK, OneConnection, PeerEnds, Live, Sockets
<1>7. OnItsWay'
  <2>1. \A j \in Sockets : \A i \in DOMAIN inbound'[j] :
            \E h \in DOMAIN inbound[j] : inbound'[j][i] = inbound[j][h]
    BY <1>1, <1>3 DEF IInv, TypeOK
  <2> QED
    BY <2>1, StaysOnItsWay DEF PeerEnds
<1> QED
  BY <1>4, <1>5, <1>6, <1>7 DEF IInv

LEMMA ClosedKeeps ==
    ASSUME IInv, NEW k \in Sockets, Closed(k) PROVE IInv'
<1>1. RejectAllPending
  BY DEF Closed
<1>2. {piece.of : piece \in Range(buffer)} \subseteq Requests
  <2>1. buffer \in Seq([of : Requests, end : {FALSE}])
    BY DEF IInv, TypeOK
  <2>2. \A i \in DOMAIN buffer : buffer[i] \in [of : Requests, end : {FALSE}]
    BY <2>1, Element
  <2>3. \A piece \in Range(buffer) : piece.of \in Requests
    BY <2>2 DEF Range
  <2> QED
    BY <2>3
<1>3. TypeOK'
  BY <1>1, <1>2, RejectKeeps DEF IInv, TypeOK, Closed, States
<1>4. OwnAnswer'
  BY <1>1, RejectKeeps DEF IInv, OwnAnswer, Closed, Answers
<1>5. OneConnection'
  BY DEF IInv, TypeOK, OneConnection, Closed, Live
<1>6. OnItsWay'
  <2>1. \A r \in Requests : outcome'[r] = "none" <=> outcome[r] = "none"
    BY <1>1, RejectKeeps
  <2>2. UNCHANGED <<said, sent, inbound>>
    BY DEF Closed
  <2> QED
    BY <2>1, <2>2, StaysOnItsWay
<1> QED
  BY <1>3, <1>4, <1>5, <1>6 DEF IInv

LEMMA DestroyKeeps ==
    ASSUME IInv, Destroy PROVE IInv'
<1>1. RejectAllPending
  BY DEF Destroy
<1>6. /\ inbound' \in [Sockets -> Seq([of : Requests, end : BOOLEAN])]
      /\ \A j \in Sockets : \A i \in DOMAIN inbound'[j] :
            \E h \in DOMAIN inbound[j] : inbound'[j][i] = inbound[j][h]
  <2>1. CASE inbound' = inbound
    BY <2>1 DEF IInv, TypeOK
  <2>2. CASE socket # 0 /\ inbound' = [inbound EXCEPT ![socket] = <<>>]
    BY <2>2, EmptyInbound DEF IInv, TypeOK
  <2> QED
    BY <2>1, <2>2 DEF Destroy
<1>2. TypeOK'
  BY <1>1, <1>6, RejectKeeps DEF IInv, TypeOK, Destroy, States
<1>3. OwnAnswer'
  BY <1>1, RejectKeeps DEF IInv, OwnAnswer, Destroy, Answers
<1>4. OneConnection'
  BY DEF IInv, TypeOK, OneConnection, Destroy, Live
<1>5. OnItsWay'
  <2>1. \A r \in Requests : outcome'[r] = "none" <=> outcome[r] = "none"
    BY <1>1, RejectKeeps
  <2>2. UNCHANGED <<said, sent>>
    BY DEF Destroy
  <2> QED
    BY <1>6, <2>1, <2>2, StaysOnItsWay
<1> QED
  BY <1>2, <1>3, <1>4, <1>5 DEF IInv

LEMMA RequestKeeps ==
    ASSUME IInv, NEW r \in Requests, Request(r) PROVE IInv'
<1>1. CASE socket = 0 \/ ~connected
  <2>1. outcome' = [q \in Requests |-> IF q \in {r} THEN "lost" ELSE outcome[q]]
    BY <1>1 DEF Request, Settle
  <2> QED
    BY <1>1, <2>1, ZenonT(40)
       DEF IInv, TypeOK, OwnAnswer, OneConnection, OnItsWay, Request, Outcomes, Answers
<1>2. CASE socket # 0 /\ connected
  <2>1. /\ outcome' = [q \in Requests |-> IF q \in {r} THEN "waiting" ELSE outcome[q]]
        /\ pending' = pending \cup {r}
        /\ sent' = [sent EXCEPT ![socket] = IF state[socket] = "open" THEN @ \cup {r} ELSE @]
        /\ socket \in Sockets
    BY <1>2 DEF Request, Settle, IInv, TypeOK
  <2>2. TypeOK'
    BY <1>2, <2>1 DEF IInv, TypeOK, Request, Outcomes
  <2>3. OwnAnswer'
    BY <1>2, <2>1 DEF IInv, TypeOK, OwnAnswer, OneConnection, Request, Answers
  <2>4. OneConnection'
    BY DEF IInv, OneConnection, Request
  <2>5. \A k \in Sockets : r \notin sent[k]
    BY DEF IInv, OnItsWay, Request
  <2>6. OnItsWay'
    BY <1>2, <2>1, <2>5 DEF IInv, TypeOK, OnItsWay, Request
  <2> QED
    BY <2>2, <2>3, <2>4, <2>6 DEF IInv
<1> QED
  BY <1>1, <1>2

LEMMA TimeoutKeeps ==
    ASSUME IInv, NEW r \in Requests, Timeout(r) PROVE IInv'
BY DEF IInv, TypeOK, OwnAnswer, OneConnection, OnItsWay, Timeout, Settle, Outcomes, Answers

LEMMA ReplyKeeps ==
    ASSUME IInv, NEW k \in Sockets, NEW r \in Requests, NEW answer \in Answers,
           Reply(k, r, answer)
    PROVE  IInv'
<1> DEFINE pieces == <<Text(r), End(r)>>
           after == inbound[k] \o pieces
<1>1. /\ inbound[k] \in Seq([of : Requests, end : BOOLEAN])
      /\ pieces \in Seq([of : Requests, end : BOOLEAN])
      /\ \A i \in DOMAIN pieces : pieces[i].of = r
  <2>1. Text(r).of = r /\ End(r).of = r
    BY DEF Text, End
  <2>2. Text(r) \in [of : Requests, end : BOOLEAN] /\ End(r) \in [of : Requests, end : BOOLEAN]
    BY DEF Text, End
  <2>3. DOMAIN pieces = {1, 2} /\ pieces[1] = Text(r) /\ pieces[2] = End(r)
    OBVIOUS
  <2>4. pieces \in Seq([of : Requests, end : BOOLEAN])
    BY <2>2
  <2>5. inbound[k] \in Seq([of : Requests, end : BOOLEAN])
    BY DEF IInv, TypeOK
  <2> QED
    BY <2>1, <2>3, <2>4, <2>5
<1>2. /\ after \in Seq([of : Requests, end : BOOLEAN])
      /\ \A i \in DOMAIN after :
            \/ i \in DOMAIN inbound[k] /\ after[i] = inbound[k][i]
            \/ after[i].of = r
  <2> HIDE DEF pieces
  <2> QED BY <1>1
<1>3. inbound' = [inbound EXCEPT ![k] = after]
  BY DEF Reply
<1> HIDE DEF after
<1>4. TypeOK'
  BY <1>2, <1>3 DEF IInv, TypeOK, Reply
<1>5. OwnAnswer'
  BY DEF IInv, TypeOK, OwnAnswer, OnItsWay, Reply, Answers
<1>6. OneConnection'
  BY DEF IInv, OneConnection, Reply
<1>7. OnItsWay'
  <2>1. /\ said' = [said EXCEPT ![r] = answer]
        /\ sent' = [sent EXCEPT ![k] = @ \ {r}]
        /\ outcome' = outcome
        /\ r \in sent[k]
    BY DEF Reply
  <2>2. \A q \in Requests : outcome'[q] = "none" => said'[q] = "none"
    BY <2>1 DEF IInv, TypeOK, OnItsWay
  <2>3. \A j \in Sockets : \A q \in sent'[j] : said'[q] = "none" /\ outcome'[q] # "none"
    BY <2>1 DEF IInv, TypeOK, OnItsWay
  <2>4. \A i, j \in Sockets : i # j => sent'[i] \cap sent'[j] = {}
    BY <2>1 DEF IInv, TypeOK, OnItsWay
  <2>5. \A j \in Sockets : \A i \in DOMAIN inbound'[j] : said'[inbound'[j][i].of] \in Answers
    BY <1>2, <1>3, <2>1 DEF IInv, TypeOK, OnItsWay
  <2> QED
    BY <2>2, <2>3, <2>4, <2>5 DEF OnItsWay
<1> QED
  BY <1>4, <1>5, <1>6, <1>7 DEF IInv

LEMMA DataKeeps ==
    ASSUME IInv, NEW k \in Sockets, Data(k) PROVE IInv'
<1> DEFINE piece == Head(inbound[k])
           r == piece.of
<1>1. /\ inbound[k] \in Seq([of : Requests, end : BOOLEAN]) /\ inbound[k] # <<>>
      /\ inbound' = [inbound EXCEPT ![k] = Tail(@)]
  BY DEF IInv, TypeOK, Data
<1>2. /\ piece = inbound[k][1] /\ 1 \in DOMAIN inbound[k]
      /\ Tail(inbound[k]) \in Seq([of : Requests, end : BOOLEAN])
      /\ \A i \in DOMAIN Tail(inbound[k]) :
            Tail(inbound[k])[i] = inbound[k][i + 1] /\ i + 1 \in DOMAIN inbound[k]
  BY <1>1, Behead
<1>3. piece \in [of : Requests, end : BOOLEAN] /\ said[r] \in Answers
  <2>1. inbound[k][1] \in [of : Requests, end : BOOLEAN]
    BY <1>1, <1>2, Element
  <2>2. said[inbound[k][1].of] \in Answers
    BY <1>2 DEF IInv, OnItsWay
  <2> QED
    BY <1>2, <2>1, <2>2
<1>4. /\ \/ outcome' = outcome /\ pending' = pending
         \/ /\ r \in pending /\ pending' = pending \ {r}
            /\ outcome' = [q \in Requests |-> IF q \in {r} THEN said[r] ELSE outcome[q]]
      /\ buffer' = <<>> \/ (~piece.end /\ buffer' = Append(buffer, piece))
      /\ missed' \in {missed, missed \cup {r}}
  BY DEF Data, Settle
<1>5. UNCHANGED <<socket, connected, state, opening, sent, said, cut>>
  BY DEF Data
<1> HIDE DEF piece
<1>6. buffer' \in Seq([of : Requests, end : {FALSE}])
  <2>1. CASE buffer' = <<>>
    BY <2>1
  <2>2. CASE ~piece.end /\ buffer' = Append(buffer, piece)
    <3>1. piece \in [of : Requests, end : {FALSE}]
      BY <1>3, <2>2
    <3>2. buffer \in Seq([of : Requests, end : {FALSE}])
      BY DEF IInv, TypeOK
    <3>3. Append(buffer, piece) \in Seq([of : Requests, end : {FALSE}])
      BY <3>1, <3>2, Longer
    <3> QED
      BY <2>2, <3>3
  <2> QED
    BY <1>4, <2>1, <2>2
<1>7. TypeOK'
  BY <1>1, <1>2, <1>3, <1>4, <1>5, <1>6, ZenonT(40) DEF IInv, TypeOK, Outcomes, Answers
<1>8. OwnAnswer'
  BY <1>3, <1>4, <1>5 DEF IInv, TypeOK, OwnAnswer, Answers
<1>9. OneConnection'
  BY <1>5 DEF IInv, OneConnection
<1>10. OnItsWay'
  <2>1. \A q \in Requests : outcome'[q] = "none" <=> outcome[q] = "none"
    <3>1. CASE outcome' = outcome
      BY <3>1
    <3>2. CASE r \in pending
               /\ outcome' = [q \in Requests |-> IF q \in {r} THEN said[r] ELSE outcome[q]]
      <4>1. outcome[r] = "waiting"
        BY <3>2 DEF IInv, OwnAnswer
      <4> QED
        BY <1>3, <3>2, <4>1 DEF Answers
    <3> QED
      BY <1>4, <3>1, <3>2
  <2>2. \A j \in Sockets : \A i \in DOMAIN inbound'[j] :
            \E h \in DOMAIN inbound[j] : inbound'[j][i] = inbound[j][h]
    BY <1>1, <1>2 DEF IInv, TypeOK
  <2> QED
    BY <1>5, <2>1, <2>2, StaysOnItsWay
<1> QED
  BY <1>7, <1>8, <1>9, <1>10 DEF IInv

-----------------------------------------------------------------------------
\* IInv is inductive: one lemma for each action.
THEOREM NextIInv == IInv /\ [Next]_vars => IInv'
<1> SUFFICES ASSUME IInv, [Next]_vars PROVE IInv'
  OBVIOUS
<1>1. CASE UNCHANGED vars
  BY <1>1 DEF vars, IInv, TypeOK, OwnAnswer, OneConnection, OnItsWay
<1>2. CASE Next
  BY <1>2, ConnectKeeps, OpenedKeeps, ErrorKeeps, PeerEndsKeeps, ClosedKeeps, DataKeeps,
     ReplyKeeps, RequestKeeps, TimeoutKeeps, DestroyKeeps DEF Next
<1> QED
  BY <1>1, <1>2

THEOREM AlwaysIInv == Spec => []IInv
BY InitIInv, NextIInv, PTL DEF Spec

\* Every variable keeps its type.
THEOREM SentinelTypeCorrect == Spec => []TypeOK
<1>1. IInv => TypeOK
  BY DEF IInv
<1> QED
  BY <1>1, AlwaysIInv, PTL

\* A request waits as long as the map has it and its connection is there, and gets the
\* daemon's answer to it or none, for any number of requests and connections.
THEOREM AnswersAreOwn == Spec => []OwnAnswer
<1>1. IInv => OwnAnswer
  BY DEF IInv
<1> QED
  BY <1>1, AlwaysIInv, PTL

-----------------------------------------------------------------------------
(* OneMissedPerCut: what the buffer holds of lines that were cut. *)

Pieces == [of : Requests, end : BOOLEAN]
Reading(k) == state[k] \in {"open", "ending"}

\* One socket after the other is read, and nothing is on its way on any other.
InTurn ==
    /\ \A j, k \in Sockets : j < k /\ state[k] # "none" => state[j] \in {"destroyed", "closed"}
    /\ \A j, k \in Sockets : j < k /\ Reading(k) => state[j] = "closed"
    /\ \A k \in Sockets : ~Reading(k) => inbound[k] = <<>>

\* A line of buffer b is begun and not among the cut ones.
Begun(b, c) == \E i \in DOMAIN b : b[i].of \notin c

\* The pieces p on their way go on where buffer b ends: text and end in turn, and whole
\* lines only as long as the daemon has not ended the connection.
Lines(p, open, b, c) ==
    /\ \A i \in DOMAIN p : p[i].of \notin c
    /\ \A i \in DOMAIN p : i + 1 \in DOMAIN p =>
          IF p[i].end THEN ~p[i + 1].end ELSE p[i + 1] = End(p[i].of)
    /\ p # <<>> => IF Begun(b, c) THEN p[1] = End(b[Len(b)].of) ELSE ~p[1].end
    /\ open => IF p = <<>> THEN ~Begun(b, c) ELSE p[Len(p)].end

Buffered ==
    /\ \A r \in cut : said[r] \in Answers
    /\ \A i \in DOMAIN buffer : said[buffer[i].of] \in Answers
    /\ \A i \in DOMAIN buffer : buffer[i].of \notin cut => i = Len(buffer)
    /\ Begun(buffer, cut) => \E k \in Sockets : state[k] \in {"open", "ending", "destroyed"}

\* The rest of a cut line in the buffer is one more answer that may be missed.
Spoiled == IF \E i \in DOMAIN buffer : buffer[i].of \in cut THEN 1 ELSE 0

Balanced ==
    /\ IsFiniteSet(missed) /\ IsFiniteSet(cut)
    /\ Cardinality(missed) + Spoiled <= Cardinality(cut)

CutInv ==
    /\ IInv /\ InTurn /\ Buffered /\ Balanced
    /\ \A k \in Sockets : Lines(inbound[k], state[k] = "open", buffer, cut)

LEMMA InitCut == Init => CutInv
<1> SUFFICES ASSUME Init PROVE CutInv
  OBVIOUS
<1>1. /\ buffer = <<>> /\ cut = {} /\ missed = {} /\ DOMAIN buffer = {} /\ DOMAIN <<>> = {}
      /\ state = [k \in Sockets |-> "none"] /\ inbound = [k \in Sockets |-> <<>>]
  BY DEF Init
<1>2. InTurn
  BY <1>1 DEF InTurn, Reading
<1>3. ~Begun(buffer, cut) /\ Spoiled = 0
  BY <1>1 DEF Begun, Spoiled
<1>4. Buffered /\ Balanced
  BY <1>1, <1>3, FS_EmptySet DEF Buffered, Balanced
<1>5. \A k \in Sockets : Lines(inbound[k], state[k] = "open", buffer, cut)
  BY <1>1, <1>3 DEF Lines
<1> QED
  BY <1>2, <1>4, <1>5, InitIInv DEF CutInv

\* Where buffer and cut stay as they are, so do the lines that are read as before.
LEMMA LinesStay ==
    ASSUME CutInv, UNCHANGED <<buffer, cut>>, NEW k \in Sockets, inbound'[k] = inbound[k],
           state'[k] = "open" => state[k] = "open"
    PROVE  Lines(inbound'[k], state'[k] = "open", buffer', cut')
<1>1. Lines(inbound[k], state[k] = "open", buffer, cut)
  BY DEF CutInv
<1> QED
  BY <1>1 DEF Lines, Begun

LEMMA BufferedStays ==
    ASSUME CutInv, UNCHANGED <<buffer, cut, said>>,
           \A k \in Sockets : state[k] \in {"open", "ending", "destroyed"}
                                => state'[k] \in {"open", "ending", "destroyed"}
    PROVE  Buffered'
BY DEF CutInv, Buffered, Begun

LEMMA BalanceStays ==
    ASSUME CutInv, UNCHANGED <<buffer, cut, missed>>
    PROVE  Balanced'
BY DEF CutInv, Balanced, Spoiled

LEMMA EmptyLines ==
    ASSUME NEW k, inbound'[k] = <<>>, state'[k] # "open"
    PROVE  Lines(inbound'[k], state'[k] = "open", buffer', cut')
<1>1. DOMAIN <<>> = {}
  OBVIOUS
<1> QED
  BY <1>1 DEF Lines

LEMMA SocketsOrdered == \A j, k \in Sockets : j < k \/ j = k \/ k < j
BY SocketsAssumption DEF Sockets

LEMMA ConnectCut == ASSUME CutInv, NEW k \in Sockets, Connect(k) PROVE CutInv'
<1>1. /\ state' = [state EXCEPT ![k] = "connecting"] /\ state[k] = "none"
      /\ \A j \in 1..(k - 1) : state[j] \in {"destroyed", "closed"}
      /\ UNCHANGED <<buffer, cut, said, missed, inbound>>
  BY DEF Connect
<1>2. state \in [Sockets -> States] /\ InTurn /\ IInv'
  BY ConnectKeeps DEF CutInv, IInv, TypeOK
<1>3. \A j \in Sockets : j < k => state[j] \in {"destroyed", "closed"}
  BY <1>1, SocketsAssumption DEF Sockets
<1>4. InTurn'
  BY <1>1, <1>2, <1>3, SocketsOrdered DEF InTurn, Reading
<1>5. Buffered' /\ Balanced'
  BY <1>1, <1>2, BufferedStays, BalanceStays
<1>6. \A j \in Sockets : Lines(inbound'[j], state'[j] = "open", buffer', cut')
  BY <1>1, <1>2, LinesStay
<1> QED
  BY <1>2, <1>4, <1>5, <1>6 DEF CutInv

LEMMA OpenedCut == ASSUME CutInv, NEW k \in Sockets, Opened(k) PROVE CutInv'
<1>1. /\ state' = [state EXCEPT ![k] = "open"] /\ state[k] = "connecting"
      /\ \A j \in 1..(k - 1) : state[j] = "closed"
      /\ UNCHANGED <<buffer, cut, said, missed, inbound>>
  BY DEF Opened
<1>2. state \in [Sockets -> States] /\ InTurn /\ IInv'
  BY OpenedKeeps DEF CutInv, IInv, TypeOK
<1>3. \A j \in Sockets : /\ j < k => state[j] = "closed"
                         /\ k < j => state[j] = "none"
  BY <1>1, <1>2, SocketsAssumption DEF Sockets, InTurn
<1>4. InTurn'
  BY <1>1, <1>2, <1>3, SocketsOrdered DEF InTurn, Reading
<1>5. Buffered' /\ Balanced'
  BY <1>1, <1>2, BufferedStays, BalanceStays
<1>6. ~Begun(buffer, cut) /\ inbound[k] = <<>>
  BY <1>1, <1>2, <1>3, SocketsOrdered DEF CutInv, Buffered, InTurn, Reading
<1>7. Lines(inbound'[k], state'[k] = "open", buffer', cut')
  <2>1. DOMAIN <<>> = {} /\ ~Begun(buffer', cut')
    BY <1>1, <1>6 DEF Begun
  <2> QED
    BY <1>1, <1>6, <2>1 DEF Lines
<1>8. \A j \in Sockets : j # k => Lines(inbound'[j], state'[j] = "open", buffer', cut')
  BY <1>1, <1>2, LinesStay
<1> QED
  BY <1>2, <1>4, <1>5, <1>7, <1>8 DEF CutInv

\* A socket is destroyed, by an error or by destroy().
LEMMA DestroyedCut ==
    ASSUME CutInv, IInv', NEW k \in Sockets, state[k] \in {"connecting", "open", "ending"},
           state' = [state EXCEPT ![k] = "destroyed"], inbound' = [inbound EXCEPT ![k] = <<>>],
           UNCHANGED <<buffer, cut, said, missed>>
    PROVE  CutInv'
<1>1. /\ state \in [Sockets -> States] /\ InTurn
      /\ inbound \in [Sockets -> Seq(Pieces)]
  BY DEF CutInv, IInv, TypeOK, Pieces
<1>2. InTurn'
  BY <1>1, SocketsOrdered DEF InTurn, Reading
<1>3. Buffered' /\ Balanced'
  BY <1>1, BufferedStays, BalanceStays
<1>4. \A j \in Sockets : Lines(inbound'[j], state'[j] = "open", buffer', cut')
  BY <1>1, LinesStay, EmptyLines
<1> QED
  BY <1>2, <1>3, <1>4 DEF CutInv

LEMMA ErrorCut == ASSUME CutInv, NEW k \in Sockets, Error(k) PROVE CutInv'
<1>1. IInv'
  BY ErrorKeeps DEF CutInv
<1> QED
  BY <1>1, DestroyedCut DEF Error

LEMMA DestroyCut == ASSUME CutInv, Destroy PROVE CutInv'
<1>1. IInv'
  BY DestroyKeeps DEF CutInv
<1>2. socket \in {0} \cup Sockets
  BY DEF CutInv, IInv, TypeOK
<1>3. CASE socket # 0 /\ state[socket] \in {"connecting", "open", "ending"}
  BY <1>1, <1>2, <1>3, DestroyedCut DEF Destroy
<1>4. CASE UNCHANGED <<state, inbound>>
  <2>1. UNCHANGED <<buffer, cut, said, missed>>
    BY DEF Destroy
  <2>2. InTurn'
    BY <1>4 DEF CutInv, InTurn, Reading
  <2>3. \A j \in Sockets : Lines(inbound'[j], state'[j] = "open", buffer', cut')
    BY <1>4, <2>1, LinesStay
  <2> QED
    BY <1>1, <1>4, <2>1, <2>2, <2>3, BufferedStays, BalanceStays DEF CutInv
<1> QED
  BY <1>3, <1>4 DEF Destroy

LEMMA PeerEndsCut == ASSUME CutInv, NEW k \in Sockets, PeerEnds(k) PROVE CutInv'
<1>1. PICK n \in 0..Len(inbound[k]) : inbound' = [inbound EXCEPT ![k] = SubSeq(@, 1, n)]
  BY DEF PeerEnds
<1>2. /\ state' = [state EXCEPT ![k] = "ending"] /\ state[k] = "open"
      /\ UNCHANGED <<buffer, cut, said, missed>>
  BY DEF PeerEnds
<1>3. /\ state \in [Sockets -> States] /\ InTurn /\ IInv'
      /\ inbound \in [Sockets -> Seq(Pieces)]
  BY PeerEndsKeeps DEF CutInv, IInv, TypeOK, Pieces
<1>4. InTurn'
  BY <1>1, <1>2, <1>3, SocketsOrdered DEF InTurn, Reading
<1>5. Buffered' /\ Balanced'
  BY <1>2, <1>3, BufferedStays, BalanceStays
<1> DEFINE p == inbound[k]
           q == SubSeq(p, 1, n)
<1>6. /\ \A i \in DOMAIN q : q[i] = p[i] /\ i \in DOMAIN p
      /\ q # <<>> => p # <<>> /\ q[1] = p[1]
  BY <1>3
<1>7. Lines(p, TRUE, buffer, cut)
  BY <1>2 DEF CutInv
<1> HIDE DEF q
<1>8. Lines(q, FALSE, buffer', cut')
  BY <1>2, <1>6, <1>7 DEF Lines, Begun
<1>9. Lines(inbound'[k], state'[k] = "open", buffer', cut')
  BY <1>1, <1>2, <1>3, <1>8 DEF q
<1>10. \A j \in Sockets : j # k => Lines(inbound'[j], state'[j] = "open", buffer', cut')
  BY <1>1, <1>2, <1>3, LinesStay
<1> QED
  BY <1>3, <1>4, <1>5, <1>9, <1>10 DEF CutInv

LEMMA RequestCut == ASSUME CutInv, NEW r \in Requests, Request(r) \/ Timeout(r) PROVE CutInv'
<1>1. UNCHANGED <<buffer, cut, said, missed, inbound, state>> /\ IInv'
  BY RequestKeeps, TimeoutKeeps DEF Request, Timeout, CutInv
<1>2. InTurn'
  BY <1>1 DEF CutInv, InTurn, Reading
<1>3. \A j \in Sockets : Lines(inbound'[j], state'[j] = "open", buffer', cut')
  BY <1>1, LinesStay
<1> QED
  BY <1>1, <1>2, <1>3, BufferedStays, BalanceStays DEF CutInv

\* A whole line more.
LEMMA LinesGrow ==
    ASSUME NEW p \in Seq(Pieces), NEW r \in Requests, NEW b, NEW c, Lines(p, TRUE, b, c), r \notin c
    PROVE  Lines(p \o <<Text(r), End(r)>>, TRUE, b, c)
<1> DEFINE line == <<Text(r), End(r)>>
           q == p \o line
           n == Len(p)
<1>1. /\ Text(r) \in Pieces /\ End(r) \in Pieces /\ Text(r).of = r /\ End(r).of = r
      /\ ~Text(r).end /\ End(r).end
  BY DEF Text, End, Pieces
<1>2. line \in Seq(Pieces) /\ Len(line) = 2 /\ line[1] = Text(r) /\ line[2] = End(r)
  BY <1>1
<1> HIDE DEF line
<1>3. /\ n \in Nat /\ q \in Seq(Pieces) /\ Len(q) = n + 2 /\ DOMAIN q = 1..n + 2 /\ DOMAIN p = 1..n
      /\ \A i \in 1..n : q[i] = p[i]
      /\ q[n + 1] = Text(r) /\ q[n + 2] = End(r) /\ (p = <<>> <=> n = 0)
  <2>1. /\ q \in Seq(Pieces) /\ Len(q) = n + 2
        /\ \A i \in 1..n + 2 : q[i] = IF i <= n THEN p[i] ELSE line[i - n]
    <3>1. /\ p \o line \in Seq(Pieces) /\ Len(p \o line) = Len(p) + Len(line)
          /\ \A i \in 1..Len(p) + Len(line) :
               (p \o line)[i] = IF i <= Len(p) THEN p[i] ELSE line[i - Len(p)]
      BY <1>2, ConcatProperties
    <3> QED
      BY <1>2, <3>1
  <2>2. n \in Nat /\ DOMAIN p = 1..n /\ (p = <<>> <=> n = 0)
    OBVIOUS
  <2> HIDE DEF q, n
  <2>3. /\ \A i \in 1..n : q[i] = p[i]
        /\ q[n + 1] = line[1] /\ q[n + 2] = line[2]
    BY <2>1, <2>2
  <2>4. DOMAIN q = 1..n + 2
    BY <2>1, <2>2
  <2> QED
    BY <1>2, <2>1, <2>2, <2>3, <2>4
<1> HIDE DEF q, n
<1>4. \A i \in 1..n + 2 : q[i].of \notin c
  BY <1>1, <1>3 DEF Lines
<1>5. ASSUME NEW i \in 1..n + 2, i + 1 \in 1..n + 2
      PROVE  IF q[i].end THEN ~q[i + 1].end ELSE q[i + 1] = End(q[i].of)
  <2>1. CASE i < n
    <3>1. i \in DOMAIN p /\ i + 1 \in DOMAIN p /\ q[i] = p[i] /\ q[i + 1] = p[i + 1]
      BY <1>3, <2>1
    <3> QED
      BY <3>1 DEF Lines
  <2>2. CASE i = n
    <3>1. q[i] = p[n] /\ p # <<>> /\ q[i + 1] = Text(r)
      BY <1>3, <2>2
    <3>2. p[n].end
      BY <3>1 DEF Lines, n
    <3> QED
      BY <1>1, <3>1, <3>2
  <2>3. CASE i = n + 1
    <3>1. q[i] = Text(r) /\ q[i + 1] = End(r)
      BY <1>3, <2>3
    <3> QED
      BY <1>1, <3>1
  <2> QED
    BY <1>3, <1>5, <2>1, <2>2, <2>3
<1>6. IF Begun(b, c) THEN q[1] = End(b[Len(b)].of) ELSE ~q[1].end
  <2>1. CASE p = <<>>
    <3>1. ~Begun(b, c) /\ q[1] = Text(r)
      BY <1>3, <2>1 DEF Lines
    <3> QED
      BY <1>1, <3>1
  <2>2. CASE p # <<>>
    <3>1. q[1] = p[1]
      BY <1>3, <2>2
    <3> QED
      BY <2>2, <3>1 DEF Lines
  <2> QED
    BY <2>1, <2>2
<1>7. q # <<>> /\ q[Len(q)].end
  BY <1>1, <1>3
<1>8. Lines(q, TRUE, b, c)
  BY <1>3, <1>4, <1>5, <1>6, <1>7 DEF Lines
<1> QED
  BY <1>8 DEF q, line

LEMMA ReplyCut ==
    ASSUME CutInv, NEW k \in Sockets, NEW r \in Requests, NEW answer \in Answers, Reply(k, r, answer)
    PROVE  CutInv'
<1>1. /\ state[k] = "open" /\ r \in sent[k] /\ said' = [said EXCEPT ![r] = answer]
      /\ inbound' = [inbound EXCEPT ![k] = @ \o <<Text(r), End(r)>>]
      /\ UNCHANGED <<buffer, cut, missed, state>>
  BY DEF Reply
<1>2. /\ IInv' /\ InTurn /\ inbound \in [Sockets -> Seq(Pieces)]
      /\ said \in [Requests -> {"none"} \cup Answers] /\ cut \subseteq Requests
      /\ Lines(inbound[k], TRUE, buffer, cut)
  BY <1>1, ReplyKeeps DEF CutInv, IInv, TypeOK, Pieces
<1>3. said[r] = "none" /\ r \notin cut
  BY <1>1 DEF CutInv, IInv, OnItsWay, Buffered, Answers
<1>4. InTurn'
  BY <1>1, <1>2 DEF InTurn, Reading
<1>5. Buffered'
  <2>1. \A i \in DOMAIN buffer : buffer[i].of \in Requests
    <3>1. \A i \in DOMAIN buffer : buffer[i] \in [of : Requests, end : {FALSE}]
      BY Element DEF CutInv, IInv, TypeOK
    <3> QED
      BY <3>1
  <2>2. \A q \in Requests : said[q] \in Answers => said'[q] \in Answers
    BY <1>1, <1>2
  <2> QED
    BY <1>1, <1>2, <2>1, <2>2 DEF CutInv, Buffered
<1>6. Lines(inbound[k] \o <<Text(r), End(r)>>, TRUE, buffer, cut)
  BY <1>2, <1>3, LinesGrow
<1>7. Lines(inbound'[k], state'[k] = "open", buffer', cut')
  <2>1. inbound'[k] = inbound[k] \o <<Text(r), End(r)>>
    BY <1>1, <1>2
  <2>2. (state'[k] = "open") = TRUE
    BY <1>1
  <2> QED
    BY <1>1, <1>6, <2>1, <2>2
<1>8. \A j \in Sockets : j # k => Lines(inbound'[j], state'[j] = "open", buffer', cut')
  BY <1>1, <1>2, LinesStay
<1> QED
  BY <1>1, <1>2, <1>4, <1>5, <1>7, <1>8, BalanceStays DEF CutInv

\* What the end of a connection cuts: one line at most that was not cut before.
LEMMA ClosedCut == ASSUME CutInv, NEW k \in Sockets, Closed(k) PROVE CutInv'
<1> DEFINE texts == {piece.of : piece \in Range(buffer)}
<1>1. /\ state[k] \in {"ending", "destroyed"}
      /\ state[k] = "ending" => inbound[k] = <<>>
      /\ state' = [state EXCEPT ![k] = "closed"] /\ cut' = cut \cup texts
      /\ UNCHANGED <<buffer, inbound, said, missed>>
  BY DEF Closed
<1>2. /\ state \in [Sockets -> States] /\ InTurn /\ IInv' /\ Buffered /\ Balanced
      /\ buffer \in Seq([of : Requests, end : {FALSE}])
  BY ClosedKeeps DEF CutInv, IInv, TypeOK
<1>3. \A j \in Sockets : inbound[j] = <<>> /\ state'[j] # "open"
  <2>1. \A j \in Sockets : j # k => ~Reading(j)
    BY <1>1, <1>2, SocketsOrdered DEF InTurn, Reading
  <2> QED
    BY <1>1, <1>2, <2>1 DEF InTurn, Reading
<1>4. InTurn'
  BY <1>1, <1>2, <1>3, SocketsOrdered DEF InTurn, Reading
<1>5. \A i \in DOMAIN buffer : buffer[i].of \in texts
  BY DEF Range
<1>6. Buffered'
  <2>1. ~Begun(buffer', cut')
    BY <1>1, <1>5 DEF Begun
  <2>2. \A r \in texts : \E i \in DOMAIN buffer : r = buffer[i].of
    BY DEF Range
  <2> HIDE DEF texts
  <2>3. \A r \in cut' : said'[r] \in Answers
    BY <1>1, <1>2, <2>2 DEF Buffered
  <2> QED
    BY <1>1, <1>2, <1>5, <2>1, <2>3 DEF Buffered
<1>7. \A j \in Sockets : Lines(inbound'[j], state'[j] = "open", buffer', cut')
  BY <1>1, <1>3, EmptyLines
<1>8. Balanced'
  <2>1. /\ IsFiniteSet(missed) /\ IsFiniteSet(cut) /\ Spoiled \in {0, 1}
        /\ Cardinality(missed) + Spoiled <= Cardinality(cut)
        /\ Cardinality(missed) \in Nat /\ Cardinality(cut) \in Nat
    BY <1>2, FS_CardinalityType DEF Balanced, Spoiled
  <2>2. CASE ~Begun(buffer, cut)
    <3>1. cut' = cut
      <4>1. texts \subseteq cut
        BY <2>2 DEF Begun, Range
      <4> QED
        BY <1>1, <4>1
    <3> QED
      BY <1>1, <3>1, BalanceStays
  <2>3. CASE Begun(buffer, cut)
    <3>1. PICK i \in DOMAIN buffer : buffer[i].of \notin cut
      BY <2>3 DEF Begun
    <3>2. \A j \in DOMAIN buffer : buffer[j].of \in cut \/ buffer[j].of = buffer[i].of
      BY <1>2, <3>1 DEF Buffered
    <3>3. texts \subseteq cut \cup {buffer[i].of}
      BY <3>2 DEF Range
    <3>4. buffer[i].of \in texts
      BY <1>5
    <3> HIDE DEF texts
    <3>5. cut' = cut \cup {buffer[i].of}
      BY <1>1, <3>3, <3>4
    <3>6. IsFiniteSet(cut') /\ Cardinality(cut') = Cardinality(cut) + 1
      BY <2>1, <3>1, <3>5, FS_AddElement
    <3>7. Spoiled' \in {0, 1} /\ missed' = missed
      BY <1>1 DEF Spoiled
    <3> HIDE DEF Spoiled
    <3>8. Cardinality(missed') + Spoiled' <= Cardinality(cut')
      BY <2>1, <3>6, <3>7
    <3> QED
      BY <2>1, <3>6, <3>7, <3>8 DEF Balanced
  <2> QED
    BY <2>2, <2>3
<1> QED
  BY <1>2, <1>4, <1>6, <1>7, <1>8 DEF CutInv

(* A sequence is the empty one exactly when its length is zero. *)
LEMMA Emptiness ==
    ASSUME NEW S, NEW s \in Seq(S)
    PROVE  DOMAIN s = 1..Len(s) /\ (s = <<>> <=> Len(s) = 0)
OBVIOUS

LEMMA LinesShift ==
    ASSUME NEW p \in Seq(Pieces), p # <<>>, NEW open \in BOOLEAN, NEW b, NEW c, NEW b2,
           Lines(p, open, b, c),
           IF p[1].end THEN ~Begun(b2, c) ELSE Begun(b2, c) /\ b2[Len(b2)].of = p[1].of
    PROVE  Lines(Tail(p), open, b2, c)
<1> DEFINE q == Tail(p)
           n == Len(p)
<1>1. /\ n \in Nat /\ n >= 1 /\ DOMAIN p = 1..n /\ DOMAIN q = 1..n - 1 /\ Len(q) = n - 1
      /\ \A i \in 1..n - 1 : q[i] = p[i + 1]
      /\ (q = <<>> <=> n = 1)
  <2>1. /\ q \in Seq(Pieces) /\ Len(q) = n - 1
        /\ \A i \in 1..Len(q) : q[i] = p[i + 1]
    BY HeadTailProperties
  <2>2. n \in Nat /\ n # 0 /\ DOMAIN p = 1..n
    BY EmptySeq
  <2> HIDE DEF q, n
  <2>3. DOMAIN q = 1..Len(q) /\ (q = <<>> <=> Len(q) = 0)
    BY <2>1, Emptiness
  <2> QED
    BY <2>1, <2>2, <2>3
<1> HIDE DEF q, n
<1>2. /\ \A i \in DOMAIN q : q[i].of \notin c
      /\ \A i \in DOMAIN q : i + 1 \in DOMAIN q =>
            IF q[i].end THEN ~q[i + 1].end ELSE q[i + 1] = End(q[i].of)
  <2>1. ASSUME NEW i \in DOMAIN q PROVE i + 1 \in DOMAIN p /\ q[i] = p[i + 1]
    BY <1>1
  <2>2. \A i \in DOMAIN q : q[i].of \notin c
    BY <2>1 DEF Lines
  <2>3. ASSUME NEW i \in DOMAIN q, i + 1 \in DOMAIN q
        PROVE  IF q[i].end THEN ~q[i + 1].end ELSE q[i + 1] = End(q[i].of)
    <3>1. /\ i + 1 \in DOMAIN p /\ (i + 1) + 1 \in DOMAIN p
          /\ q[i] = p[i + 1] /\ q[i + 1] = p[(i + 1) + 1]
      BY <2>1, <2>3
    <3>2. IF p[i + 1].end THEN ~p[(i + 1) + 1].end ELSE p[(i + 1) + 1] = End(p[i + 1].of)
      BY <3>1 DEF Lines
    <3> QED
      BY <3>1, <3>2
  <2> QED
    BY <2>2, <2>3
<1>3. q # <<>> => IF Begun(b2, c) THEN q[1] = End(b2[Len(b2)].of) ELSE ~q[1].end
  <2> SUFFICES ASSUME q # <<>> PROVE IF Begun(b2, c) THEN q[1] = End(b2[Len(b2)].of) ELSE ~q[1].end
    OBVIOUS
  <2>1. 1 \in DOMAIN p /\ 1 + 1 \in DOMAIN p /\ q[1] = p[1 + 1]
    BY <1>1
  <2>2. IF p[1].end THEN ~p[1 + 1].end ELSE p[1 + 1] = End(p[1].of)
    BY <2>1 DEF Lines
  <2> QED
    BY <2>1, <2>2
<1>4. open => IF q = <<>> THEN ~Begun(b2, c) ELSE q[Len(q)].end
  <2> SUFFICES ASSUME open PROVE IF q = <<>> THEN ~Begun(b2, c) ELSE q[Len(q)].end
    OBVIOUS
  <2>1. p[n].end
    BY DEF Lines, n
  <2>2. CASE q = <<>>
    BY <1>1, <2>1, <2>2
  <2>3. CASE q # <<>>
    <3>1. q[Len(q)] = p[n]
      BY <1>1, <2>3
    <3> QED
      BY <2>1, <2>3, <3>1
  <2> QED
    BY <2>2, <2>3
<1>5. Lines(q, open, b2, c)
  BY <1>2, <1>3, <1>4 DEF Lines
<1> QED
  BY <1>5 DEF q

\* A text is appended.
LEMMA TextCut ==
    ASSUME CutInv, NEW k \in Sockets, Data(k), ~Head(inbound[k]).end
    PROVE  /\ Buffered' /\ Balanced'
           /\ Begun(buffer', cut) /\ buffer'[Len(buffer')].of = Head(inbound[k]).of
<1> DEFINE piece == Head(inbound[k])
           n == Len(buffer)
<1>1. /\ inbound[k] \in Seq(Pieces) /\ inbound[k] # <<>> /\ piece = inbound[k][1] /\ 1 \in DOMAIN inbound[k]
      /\ Reading(k) /\ buffer' = Append(buffer, piece) /\ UNCHANGED <<missed, cut, said, state>>
      /\ ~piece.end
  BY Behead DEF CutInv, IInv, TypeOK, Data, Pieces, Reading
<1>2. Lines(inbound[k], state[k] = "open", buffer, cut) /\ Buffered /\ Balanced
  BY DEF CutInv
<1>3. piece.of \notin cut /\ ~Begun(buffer, cut) /\ said[piece.of] \in Answers
  <2>1. ~inbound[k][1].end /\ inbound[k][1].of \notin cut
    BY <1>1, <1>2 DEF Lines
  <2>2. End(buffer[Len(buffer)].of).end
    BY DEF End
  <2>3. ~Begun(buffer, cut)
    BY <1>1, <1>2, <2>1, <2>2 DEF Lines
  <2>4. said[inbound[k][1].of] \in Answers
    BY <1>1 DEF CutInv, IInv, OnItsWay
  <2> QED
    BY <1>1, <2>1, <2>3, <2>4
<1> HIDE DEF piece
<1>4. /\ n \in Nat /\ Len(buffer') = n + 1 /\ DOMAIN buffer' = 1..n + 1 /\ DOMAIN buffer = 1..n
      /\ buffer'[n + 1] = piece /\ \A i \in 1..n : buffer'[i] = buffer[i]
  BY <1>1 DEF CutInv, IInv, TypeOK
<1> HIDE DEF n
<1>5. Begun(buffer', cut) /\ buffer'[Len(buffer')].of = piece.of
  BY <1>3, <1>4 DEF Begun
<1>6. Spoiled' = Spoiled
  BY <1>1, <1>3, <1>4 DEF Spoiled
<1>7. \A i \in DOMAIN buffer' : buffer'[i].of \notin cut => i = n + 1
  BY <1>3, <1>4 DEF Begun
<1>8. Buffered'
  <2>1. \A i \in DOMAIN buffer' : said[buffer'[i].of] \in Answers
    BY <1>2, <1>3, <1>4 DEF Buffered
  <2> QED
    BY <1>1, <1>2, <1>4, <1>7, <2>1 DEF Buffered, Reading
<1>9. Balanced'
  BY <1>1, <1>2, <1>6 DEF Balanced
<1> QED
  BY <1>5, <1>8, <1>9 DEF piece

\* The end of a line empties the buffer; the answer is missed only if a cut line was in it.
LEMMA EndCut ==
    ASSUME CutInv, NEW k \in Sockets, Data(k), Head(inbound[k]).end
    PROVE  Buffered' /\ Balanced' /\ ~Begun(buffer', cut)
<1> DEFINE piece == Head(inbound[k])
           r == piece.of
           n == Len(buffer)
<1>1. /\ inbound[k] \in Seq(Pieces) /\ inbound[k] # <<>> /\ piece = inbound[k][1] /\ 1 \in DOMAIN inbound[k]
      /\ buffer' = <<>> /\ UNCHANGED <<cut, said, state>>
      /\ missed' = missed \/ (missed' = missed \cup {r} /\ buffer # <<Text(r)>>)
      /\ piece.end
  BY Behead DEF CutInv, IInv, TypeOK, Data, Pieces
<1>2. Lines(inbound[k], state[k] = "open", buffer, cut) /\ Buffered /\ Balanced
  BY DEF CutInv
<1>3. Begun(buffer, cut) /\ piece = End(buffer[Len(buffer)].of)
  BY <1>1, <1>2 DEF Lines
<1>4. DOMAIN buffer' = {} /\ ~Begun(buffer', cut) /\ Spoiled' = 0
  BY <1>1 DEF Begun, Spoiled
<1>5. Buffered'
  BY <1>1, <1>2, <1>4 DEF Buffered
<1> HIDE DEF piece
<1>6. /\ n \in Nat /\ DOMAIN buffer = 1..n /\ buffer \in Seq([of : Requests, end : {FALSE}])
      /\ n >= 1
  BY <1>3 DEF CutInv, IInv, TypeOK, Begun
<1>7. r = buffer[n].of
  BY <1>3 DEF End
<1>8. CASE missed' = missed
  <2>1. Spoiled \in {0, 1} /\ Cardinality(missed) \in Nat /\ Cardinality(cut) \in Nat
    BY <1>2, FS_CardinalityType DEF Spoiled, Balanced
  <2> HIDE DEF Spoiled
  <2> QED
    BY <1>1, <1>2, <1>4, <1>5, <1>8, <2>1 DEF Balanced
<1>9. CASE missed' = missed \cup {r} /\ buffer # <<Text(r)>>
  <2>1. n # 1
    <3> SUFFICES ASSUME n = 1 PROVE FALSE
      OBVIOUS
    <3>1. buffer[1] \in [of : Requests, end : {FALSE}] /\ buffer[1].of = r
      <4>1. 1 \in DOMAIN buffer
        BY <1>6
      <4>2. buffer[1] \in [of : Requests, end : {FALSE}]
        BY <1>6, <4>1, Element
      <4> QED
        BY <1>7, <4>2
    <3>2. buffer[1] = Text(r)
      BY <3>1 DEF Text
    <3>3. buffer = <<buffer[1]>>
      BY <1>6
    <3> QED
      BY <1>9, <3>2, <3>3
  <2>2. Spoiled = 1
    <3>1. 1 \in DOMAIN buffer /\ 1 # n
      BY <1>6, <2>1
    <3>2. buffer[1].of \in cut
      BY <1>2, <3>1 DEF Buffered, n
    <3> QED
      BY <3>1, <3>2 DEF Spoiled
  <2>3. IsFiniteSet(missed) /\ Cardinality(missed) \in Nat /\ Cardinality(cut) \in Nat
        /\ Cardinality(missed) + 1 <= Cardinality(cut)
    BY <1>2, <2>2, FS_CardinalityType DEF Balanced
  <2>4. IsFiniteSet(missed') /\ Cardinality(missed') <= Cardinality(missed) + 1
        /\ Cardinality(missed') \in Nat
    <3>1. IsFiniteSet(missed \cup {r})
            /\ Cardinality(missed \cup {r}) = IF r \in missed THEN Cardinality(missed) ELSE Cardinality(missed) + 1
      BY <2>3, FS_AddElement
    <3>2. Cardinality(missed \cup {r}) \in {Cardinality(missed), Cardinality(missed) + 1}
      BY <3>1, Zenon
    <3> QED
      BY <1>9, <2>3, <3>1, <3>2
  <2> QED
    BY <1>1, <1>2, <1>4, <1>5, <2>3, <2>4 DEF Balanced
<1> QED
  BY <1>1, <1>4, <1>5, <1>8, <1>9

LEMMA DataCut == ASSUME CutInv, NEW k \in Sockets, Data(k) PROVE CutInv'
<1> DEFINE piece == Head(inbound[k])
<1>1. /\ inbound[k] \in Seq(Pieces) /\ inbound[k] # <<>> /\ piece = inbound[k][1]
      /\ inbound' = [inbound EXCEPT ![k] = Tail(@)] /\ inbound \in [Sockets -> Seq(Pieces)]
      /\ UNCHANGED <<cut, state>> /\ Reading(k) /\ IInv' /\ InTurn
  BY Behead, DataKeeps DEF CutInv, IInv, TypeOK, Data, Pieces, Reading
<1>2. /\ Buffered' /\ Balanced'
      /\ IF piece.end THEN ~Begun(buffer', cut)
         ELSE Begun(buffer', cut) /\ buffer'[Len(buffer')].of = piece.of
  BY TextCut, EndCut
<1>3. InTurn'
  BY <1>1, SocketsOrdered DEF InTurn, Reading
<1>4. Lines(inbound'[k], state'[k] = "open", buffer', cut')
  <2>1. Lines(inbound[k], state[k] = "open", buffer, cut) /\ (state[k] = "open") \in BOOLEAN
    BY DEF CutInv
  <2>2. IF inbound[k][1].end THEN ~Begun(buffer', cut)
        ELSE Begun(buffer', cut) /\ buffer'[Len(buffer')].of = inbound[k][1].of
    BY <1>1, <1>2
  <2>3. Lines(Tail(inbound[k]), state[k] = "open", buffer', cut)
    BY <1>1, <2>1, <2>2, LinesShift
  <2> QED
    BY <1>1, <2>3
<1>5. ASSUME NEW j \in Sockets, j # k PROVE Lines(inbound'[j], state'[j] = "open", buffer', cut')
  <2>1. ~Reading(j) /\ inbound[j] = <<>>
    BY <1>1, <1>5, SocketsOrdered DEF InTurn, Reading
  <2>2. inbound'[j] = <<>> /\ state'[j] # "open"
    BY <1>1, <1>5, <2>1 DEF Reading
  <2> QED
    BY <2>2, EmptyLines
<1> QED
  BY <1>1, <1>2, <1>3, <1>4, <1>5 DEF CutInv

THEOREM NextCut == CutInv /\ [Next]_vars => CutInv'
<1> SUFFICES ASSUME CutInv, [Next]_vars PROVE CutInv'
  OBVIOUS
<1>1. CASE UNCHANGED vars
  <2>1. IInv'
    BY <1>1, NextIInv DEF CutInv
  <2>2. UNCHANGED <<buffer, cut, said, missed, inbound, state>>
    BY <1>1 DEF vars
  <2>3. InTurn'
    BY <2>2 DEF CutInv, InTurn, Reading
  <2>4. \A j \in Sockets : Lines(inbound'[j], state'[j] = "open", buffer', cut')
    BY <2>2, LinesStay
  <2> QED
    BY <2>1, <2>2, <2>3, <2>4, BufferedStays, BalanceStays DEF CutInv
<1>2. CASE Next
  BY <1>2, ConnectCut, OpenedCut, ErrorCut, PeerEndsCut, ClosedCut, DataCut, ReplyCut, RequestCut,
     DestroyCut DEF Next
<1> QED
  BY <1>1, <1>2

\* No more answers are missed than lines were cut, for any number of requests and connections
\* and wherever the daemon ends them.
THEOREM MissedPerCut == Spec => []OneMissedPerCut
<1>1. CutInv => OneMissedPerCut
  <2> SUFFICES ASSUME CutInv PROVE OneMissedPerCut
    OBVIOUS
  <2>1. Spoiled \in {0, 1} /\ Cardinality(missed) \in Nat /\ Cardinality(cut) \in Nat
    BY FS_CardinalityType DEF CutInv, Balanced, Spoiled
  <2>2. Cardinality(missed) + Spoiled <= Cardinality(cut)
    BY DEF CutInv, Balanced
  <2> HIDE DEF Spoiled
  <2> QED
    BY <2>1, <2>2 DEF OneMissedPerCut
<1> QED
  BY <1>1, InitCut, NextCut, PTL DEF Spec
=============================================================================
