------------------------- MODULE WriteTimeoutProofs -------------------------
(***************************************************************************)
(* Proofs about WriteTimeout, for files of any size and any number of      *)
(* responses.  The argument: between two rounds of a send the source       *)
(* stands exactly behind the bytes that have gone out, however far a round *)
(* had read ahead; and the policy is on only while the response that asked *)
(* for it is the connection's last one.                                    *)
(***************************************************************************)
EXTENDS WriteTimeout, SequenceTheorems, TLAPS

\* What is asked for lies in the file; without a limit it is its rest.
RangeOK ==
    /\ resp.start + resp.length <= FileSize
    /\ resp.via = "file" => resp.start + resp.length = FileSize

\* The bytes that have gone out.
SentOK ==
    /\ resp.total <= resp.length
    /\ Len(resp.sent) = resp.total
    /\ resp.sent = [i \in 1..resp.total |-> resp.start + i]

\* Where the next round starts.
AtRest ==
    resp.pc \in {"begun", "sending"} =>
        /\ resp.offset = resp.start + resp.total
        /\ resp.via # "file" => resp.N = resp.length - resp.total

\* Success means that nothing is left.
DoneOK == resp.pc = "done" /\ resp.err = "nil" => resp.total = resp.length

PolicyOK == (idleTimeout => resp.download) /\ (resp.extended => resp.download)

SendInv == SendTypeOK /\ RangeOK /\ SentOK /\ AtRest /\ DoneOK /\ PolicyOK

-----------------------------------------------------------------------------

\* Consecutive runs of bytes make one.
LEMMA RunsJoin ==
    ASSUME NEW s \in Nat, NEW m \in Nat, NEW n \in Nat
    PROVE  [i \in 1..m |-> s + i] \o [i \in 1..n |-> (s + m) + i] = [i \in 1..(m + n) |-> s + i]
<1>. DEFINE f == [i \in 1..m |-> s + i]
            g == [i \in 1..n |-> (s + m) + i]
            h == [i \in 1..(m + n) |-> s + i]
<1>1. f \in Seq(Nat) /\ g \in Seq(Nat) /\ h \in Seq(Nat)
  OBVIOUS
<1>2. Len(f) = m /\ Len(g) = n /\ Len(h) = m + n
  OBVIOUS
<1>3. Len(f \o g) = m + n /\ f \o g \in Seq(Nat)
  BY <1>1, <1>2
<1>4. \A i \in 1..(m + n) : (f \o g)[i] = h[i]
  BY <1>1, <1>2
<1>. QED
  BY <1>1, <1>2, <1>3, <1>4, SeqEqual

LEMMA RunIsSequence ==
    ASSUME NEW s \in Nat, NEW m \in Nat, NEW size \in Nat, s + m <= size
    PROVE  /\ [i \in 1..m |-> s + i] \in Seq(1..size)
           /\ Len([i \in 1..m |-> s + i]) = m
<1>1. \A i \in 1..m : s + i \in 1..size
  OBVIOUS
<1>. QED
  BY <1>1

LEMMA SendInitInv == SendInit => SendInv
<1>. SUFFICES ASSUME SendInit PROVE SendInv
  OBVIOUS
<1>1. resp = NoResponse /\ idleTimeout = FALSE /\ responses = 0
  BY DEF SendInit
<1>2. NoResponse \in Response
  BY WriteTimeoutAssumption DEF NoResponse, Response, Vias
<1>3. SendTypeOK
  <2>1. responses \in 0..MaxResponses
    BY <1>1, WriteTimeoutAssumption
  <2>2. resp \in Response /\ idleTimeout \in BOOLEAN
    BY <1>1, <1>2
  <2>. QED
    BY <2>1, <2>2 DEF SendTypeOK
<1>. QED
  <2>1. /\ resp.start = 0 /\ resp.length = 0 /\ resp.total = 0 /\ resp.sent = <<>>
        /\ resp.pc = "done" /\ resp.via = "write" /\ resp.extended = FALSE
    BY <1>1 DEF NoResponse
  <2>2. <<>> = [i \in 1..0 |-> 0 + i] /\ Len(<<>>) = 0
    OBVIOUS
  <2>3. SentOK
    BY <2>1, <2>2 DEF SentOK
  <2>. QED
    BY <1>1, <1>3, <2>1, <2>3, WriteTimeoutAssumption DEF SendInv, RangeOK, AtRest, DoneOK, PolicyOK

LEMMA BeginInv ==
    ASSUME SendInv, NEW via \in Vias, NEW start \in 0..FileSize, NEW length \in 0..FileSize,
           BeginResponse(via, start, length)
    PROVE  SendInv'
<1>1. resp' = [pc |-> "begun", download |-> FALSE, via |-> via, start |-> start,
               length |-> length, offset |-> start, N |-> length, total |-> 0, sent |-> <<>>,
               extended |-> FALSE, renewal |-> 0, err |-> "nil"]
  BY DEF BeginResponse, NoResponse
<1>2. /\ start + length <= FileSize
      /\ via = "file" => start + length = FileSize
      /\ idleTimeout' = FALSE
      /\ responses' = responses + 1
      /\ responses < MaxResponses
  BY DEF BeginResponse, SetWriteDeadline
<1>3. responses' \in 0..MaxResponses
  BY <1>2, WriteTimeoutAssumption DEF SendInv, SendTypeOK
<1>4. resp' \in Response
  BY <1>1, WriteTimeoutAssumption DEF Response
<1>5. SendTypeOK'
  BY <1>2, <1>3, <1>4 DEF SendTypeOK
<1>. QED
  BY <1>1, <1>2, <1>5, WriteTimeoutAssumption
     DEF SendInv, RangeOK, SentOK, AtRest, DoneOK, PolicyOK

\* Steps that leave the bytes alone.
LEMMA QuietInv ==
    ASSUME SendInv,
           EnableWriteIdleTimeout \/ StartSend \/ CloseConn \/ UNCHANGED sendVars
    PROVE  SendInv'
<1>1. /\ resp \in Response /\ idleTimeout \in BOOLEAN /\ responses' = responses
      /\ responses \in 0..MaxResponses
  BY DEF SendInv, SendTypeOK, EnableWriteIdleTimeout, StartSend, CloseConn, sendVars
<1>2. /\ resp'.via = resp.via /\ resp'.start = resp.start /\ resp'.length = resp.length
      /\ resp'.offset = resp.offset /\ resp'.N = resp.N /\ resp'.total = resp.total
      /\ resp'.sent = resp.sent /\ resp'.err = resp.err
      /\ resp' \in Response /\ idleTimeout' \in BOOLEAN
  BY <1>1, ZenonT(60) DEF EnableWriteIdleTimeout, StartSend, CloseConn, sendVars, Response
<1>3. PolicyOK'
  <2>1. CASE EnableWriteIdleTimeout
    <3>1. resp'.download = TRUE
      BY <1>1, <2>1 DEF EnableWriteIdleTimeout, Response
    <3>. QED
      BY <3>1 DEF PolicyOK
  <2>2. CASE StartSend \/ CloseConn \/ UNCHANGED sendVars
    <3>1. /\ resp'.download = resp.download /\ resp'.extended = resp.extended
          /\ idleTimeout' = idleTimeout
      BY <1>1, <2>2 DEF StartSend, CloseConn, sendVars, Response
    <3>. QED
      BY <3>1 DEF SendInv, PolicyOK
  <2>. QED
    BY <2>1, <2>2
<1>4. /\ resp'.pc \in {"begun", "sending"} => resp.pc \in {"begun", "sending"}
      /\ resp'.pc = "done" => resp.pc = "done"
  BY <1>1 DEF EnableWriteIdleTimeout, StartSend, CloseConn, sendVars, Response
<1>. QED
  BY <1>1, <1>2, <1>3, <1>4 DEF SendInv, SendTypeOK, RangeOK, SentOK, AtRest, DoneOK

\* A round that sends n bytes appends the next n bytes of the file, and the
\* source is set to stand behind them.
LEMMA SendRoundInv ==
    ASSUME SendInv, Send
    PROVE  SendInv'
<1>1. /\ resp \in Response /\ idleTimeout \in BOOLEAN /\ responses \in 0..MaxResponses
      /\ resp.pc = "sending"
      /\ UNCHANGED <<idleTimeout, responses>>
  BY DEF SendInv, SendTypeOK, Send
<1>. DEFINE done(o) == [resp EXCEPT !.total = @ + o.n,
                                   !.sent = @ \o [i \in 1..o.n |-> resp.offset + i],
                                   !.extended = @ \/ idleTimeout,
                                   !.renewal = IF idleTimeout THEN 1 - @ ELSE @,
                                   !.err = o.err]
<1>2. PICK o \in Outcomes(resp) :
            resp' = IF idleTimeout /\ MadeWriteProgress(o.n, o.err)
                    THEN Resume(done(o), o)
                    ELSE [done(o) EXCEPT !.pc = "done"]
  BY DEF Send
<1>3. /\ FileSize \in Nat
      /\ resp.start \in 0..FileSize /\ resp.length \in 0..FileSize /\ resp.total \in 0..FileSize
      /\ resp.N \in 0..FileSize /\ resp.offset \in 0..FileSize
      /\ resp.via \in Vias /\ resp.extended \in BOOLEAN /\ resp.download \in BOOLEAN
      /\ resp.sent \in Seq(1..FileSize)
  BY <1>1, WriteTimeoutAssumption DEF Response
<1>4. Left(resp) = resp.length - resp.total
  BY <1>1, <1>3 DEF SendInv, AtRest, RangeOK, Left
<1>5. /\ o.n \in 0..Left(resp)
      /\ o.err \in {"nil", "timeout", "broken"}
      /\ o.err = "nil" => o.n = Left(resp)
  BY DEF Outcomes
<1>6. o.n \in Nat /\ o.n + resp.total <= resp.length /\ (o.err = "nil" => o.n + resp.total = resp.length)
  BY <1>3, <1>4, <1>5 DEF SendInv, SentOK
<1>sent. resp.sent = [i \in 1..resp.total |-> resp.start + i]
  BY DEF SendInv, SentOK
<1>7. /\ resp.offset = resp.start + resp.total
      /\ resp.start + resp.length <= FileSize
      /\ resp.via # "file" => resp.N = resp.length - resp.total
      /\ resp.via = "file" => resp.start + resp.length = FileSize
  BY <1>1 DEF SendInv, AtRest, SentOK, RangeOK
<1>. DEFINE t == resp.total + o.n
            bytes == [i \in 1..t |-> resp.start + i]
<1>8. resp.sent \o [i \in 1..o.n |-> resp.offset + i] = bytes
  <2>1. PICK s \in Nat, m \in Nat, n \in Nat : s = resp.start /\ m = resp.total /\ n = o.n
    BY <1>3, <1>6
  <2>2. [i \in 1..m |-> s + i] \o [i \in 1..n |-> (s + m) + i] = [i \in 1..(m + n) |-> s + i]
    BY RunsJoin
  <2>. QED
    BY <2>1, <2>2, <1>7, <1>sent
<1>9. t \in 0..FileSize /\ t <= resp.length /\ bytes \in Seq(1..FileSize) /\ Len(bytes) = t
  <2>1. /\ t \in Nat /\ t <= resp.length /\ t <= FileSize
        /\ resp.start \in Nat /\ resp.start + t <= FileSize /\ FileSize \in Nat
    BY <1>3, <1>6, <1>7, SMTT(60)
  <2>. HIDE DEF t
  <2>2. bytes \in Seq(1..FileSize) /\ Len(bytes) = t
    BY <2>1, RunIsSequence
  <2>. QED
    BY <2>1, <2>2
<1>10. /\ done(o) \in Response
       /\ done(o).pc = "sending" /\ done(o).download = resp.download /\ done(o).via = resp.via
       /\ done(o).start = resp.start /\ done(o).length = resp.length
       /\ done(o).offset = resp.offset /\ done(o).N = resp.N
       /\ done(o).total = t /\ done(o).sent = bytes
       /\ done(o).extended = (resp.extended \/ idleTimeout) /\ done(o).err = o.err
  <2>. HIDE DEF bytes
  <2>1. done(o) = [resp EXCEPT !.total = t, !.sent = bytes, !.extended = resp.extended \/ idleTimeout,
                               !.renewal = IF idleTimeout THEN 1 - resp.renewal ELSE resp.renewal,
                               !.err = o.err]
    BY <1>1, <1>8 DEF Response
  <2>2. /\ (resp.extended \/ idleTimeout) \in BOOLEAN
        /\ (IF idleTimeout THEN 1 - resp.renewal ELSE resp.renewal) \in 0..1
    <3>1. resp.renewal \in 0..1
      BY <1>1 DEF Response
    <3>. QED
      BY <3>1, <1>1, <1>3
  <2>. QED
    BY <1>1, <1>5, <1>9, <2>1, <2>2, ZenonT(60) DEF Response
<1>. HIDE DEF done, bytes
<1>11. /\ resp' \in Response
       /\ resp'.pc \in {"sending", "done"}
       /\ resp'.download = resp.download /\ resp'.via = resp.via
       /\ resp'.start = resp.start /\ resp'.length = resp.length
       /\ resp'.total = t /\ resp'.sent = bytes
       /\ resp'.extended = (resp.extended \/ idleTimeout) /\ resp'.err = o.err
       /\ resp'.pc = "sending" =>
             /\ resp'.offset = resp.offset + o.n
             /\ resp.via # "file" => resp'.N = resp.N - o.n
  <2>1. CASE idleTimeout /\ MadeWriteProgress(o.n, o.err)
    <3>1. resp' = [done(o) EXCEPT !.offset = resp.offset + o.n,
                                  !.N = IF resp.via = "file" THEN resp.N ELSE resp.N - o.n]
      BY <1>2, <2>1, <1>10 DEF Resume, Response
    <3>2. resp.offset + o.n \in 0..FileSize
      BY <1>3, <1>6, <1>7, SMTT(60)
    <3>3. (IF resp.via = "file" THEN resp.N ELSE resp.N - o.n) \in 0..FileSize
      BY <1>3, <1>6, <1>7
    <3>. QED
      BY <3>1, <3>2, <3>3, <1>10 DEF Response
  <2>2. CASE ~(idleTimeout /\ MadeWriteProgress(o.n, o.err))
    BY <1>2, <2>2, <1>10 DEF Response
  <2>. QED
    BY <2>1, <2>2
<1>12. SendTypeOK'
  BY <1>1, <1>11 DEF SendTypeOK
<1>13. RangeOK' /\ SentOK'
  BY <1>7, <1>9, <1>11 DEF RangeOK, SentOK, bytes
<1>14. AtRest'
  BY <1>3, <1>6, <1>7, <1>11, SMTT(60) DEF AtRest
<1>15. DoneOK'
  BY <1>3, <1>6, <1>11 DEF DoneOK
<1>16. PolicyOK'
  BY <1>1, <1>3, <1>11 DEF SendInv, PolicyOK
<1>. QED
  BY <1>12, <1>13, <1>14, <1>15, <1>16 DEF SendInv

-----------------------------------------------------------------------------

\* Every step of the connection keeps the inductive invariant.
THEOREM SendInvariance == SendSpec => []SendInv
<1>1. ASSUME SendInv, [SendNext]_sendVars PROVE SendInv'
  BY <1>1, BeginInv, QuietInv, SendRoundInv DEF SendNext
<1>. QED
  BY <1>1, SendInitInv, PTL DEF SendSpec

\* Whatever the wrapped connection reads ahead and however often it times
\* out, Write and ReadFrom put the bytes asked for on the wire.
THEOREM BytesAreSent == SendSpec => []SendsTheBytes
<1>1. SendInv => SendsTheBytes
  BY DEF SendInv, SentOK, DoneOK, SendsTheBytes
<1>. QED
  BY <1>1, SendInvariance, PTL

\* The policy of a download does not reach the next response.
THEOREM PolicyDoesNotLeak == SendSpec => []PolicyStaysWithDownload
<1>1. SendInv => PolicyStaysWithDownload
  BY DEF SendInv, PolicyOK, PolicyStaysWithDownload
<1>. QED
  BY <1>1, SendInvariance, PTL

=============================================================================
