------------------------ MODULE TelemetryWireProofs ------------------------
(***************************************************************************)
(* What Telemetry promises of the line, proved for all replies, readings    *)
(* and budgets: a connection never outlives its query, strict_crc keeps     *)
(* damage out, and a snapshot is made of blocks that came whole.  The       *)
(* sensors play no part in it.                                              *)
(***************************************************************************)
EXTENDS Telemetry, SequenceTheorems, WellFoundedInduction, TLAPS

-----------------------------------------------------------------------------
(* Sequences.                                                               *)

\* A set of numbers that is not empty has a least one.
LEMMA LeastNumber ==
  ASSUME NEW I \in SUBSET Nat, I # {}
  PROVE  \E x \in I : \A y \in I : x <= y
<1> DEFINE R == {ss \in Nat \X Nat : ss[1] < ss[2]}
<1>1. IsWellFoundedOn(R, Nat)
  BY NatLessThanWellFounded DEF OpToRel
<1> HIDE DEF R
<1>2. PICK x \in I : \A y \in I : <<y, x>> \notin R
  BY <1>1, WFMin
<1>3. \A y \in I : ~(y < x)
  BY <1>2 DEF R
<1> QED BY <1>3

\* What is searched for, if it is there at all, is found within the sequence.
LEMMA FirstOccurrence ==
  ASSUME NEW T, NEW s \in Seq(T), NEW t,
         {i \in 1..Len(s) : s[i] = t} # {}
  PROVE  Min({i \in 1..Len(s) : s[i] = t}) \in 1..Len(s)
<1> DEFINE I == {i \in 1..Len(s) : s[i] = t}
<1>1. I \in SUBSET Nat /\ I # {}
  OBVIOUS
<1> HIDE DEF I
<1>2. \E x \in I : \A y \in I : x <= y
  BY <1>1, LeastNumber
<1>3. Min(I) \in I
  BY <1>2 DEF Min
<1> QED BY <1>3 DEF I

\* data_received moves bytes from one side to the other and loses none.
LEMMA Moved ==
  ASSUME NEW T, NEW a \in Seq(T), NEW b \in Seq(T), NEW n \in 1..Len(b)
  PROVE  (a \o SubSeq(b, 1, n)) \o SubSeq(b, n + 1, Len(b)) = a \o b
<1> DEFINE z == SubSeq(b, 1, n)
           y == SubSeq(b, n + 1, Len(b))
<1>1. z \in Seq(T) /\ y \in Seq(T)
  OBVIOUS
<1>2. z \o y = b
  BY ConcatAdjacentSubSeq, SubSeqFull
<1> HIDE DEF y, z
<1>3. (a \o z) \o y = a \o (z \o y)
  BY <1>1
<1>4. (a \o z) \o y = a \o b
  BY <1>2, <1>3
<1> QED BY <1>4, Zenon DEF y, z

\* What has arrived, and what has not, are sequences of the same tokens.
LEMMA Parts ==
  ASSUME NEW T, NEW a \in Seq(T), NEW b \in Seq(T), NEW n \in 1..Len(b)
  PROVE  /\ a \o SubSeq(b, 1, n) \in Seq(T)
         /\ SubSeq(b, n + 1, Len(b)) \in Seq(T)
OBVIOUS

\* What came before the CR is a sequence of the same tokens.
LEMMA UpToCRIsSeq ==
  ASSUME NEW b \in Seq(Tokens)
  PROVE  UpToCR(b) \in Seq(Tokens)
<1> DEFINE I == {i \in 1..Len(b) : b[i] = "CR"}
<1>1. UpToCR(b) = IF (IF I # {} THEN Min(I) ELSE 0) = 0 THEN b
                  ELSE SubSeq(b, 1, (IF I # {} THEN Min(I) ELSE 0) - 1)
  BY DEF UpToCR, SelectInSeq
<1>2. I # {} => Min(I) \in 1..Len(b)
  BY FirstOccurrence
<1> HIDE DEF I
<1> QED BY <1>1, <1>2

\* A frame the validator lets through has a payload or is a NAK; PI18's validator also
\* sees to it that nothing comes in front.
LEMMA ValidIsNotDamaged ==
  ASSUME family \in Lines, NEW raw \in Seq(Tokens), IsValid(raw)
  PROVE  /\ Decoded(raw) # "damaged"
         /\ family = "pi18" => Decoded(raw) # "shifted"
<1>1. CASE family = "pi18"
  BY <1>1 DEF IsValid, validate_pi18_response, Decoded, LosesItsEnd, Contains
<1>2. CASE family # "pi18"
  <2> DEFINE I == {j \in 1..Len(raw) : raw[j] = "("}
             i == IF I # {} THEN Min(I) ELSE 0
  <2>1. I # {} => Min(I) \in 1..Len(raw)
    BY FirstOccurrence
  <2>2. SubSeq(raw, i + 1, Len(raw)) \in {<<"p", "c">>, <<"N", "c">>}
    BY <1>2 DEF IsValid, validate_voltronic_response, SelectInSeq
  <2> HIDE DEF I
  <2>3. i \in 0..Len(raw)
    BY <2>1
  <2> HIDE DEF i
  <2> DEFINE t == SubSeq(raw, i + 1, Len(raw))
  <2>4. Len(t) = Len(raw) - i /\ (i < Len(raw) => t[1] = raw[i + 1])
    BY <2>3
  <2>5. t \in {<<"p", "c">>, <<"N", "c">>}
    BY <2>2
  <2> HIDE DEF t
  <2>6. Len(t) = 2 /\ t[1] \in {"p", "N"}
    BY <2>5
  <2>7. i + 1 \in 1..Len(raw) /\ raw[i + 1] \in {"p", "N"}
    BY <2>3, <2>4, <2>6
  <2> QED BY <1>2, <2>7 DEF Decoded, LosesItsEnd, Lines, Contains
<1> QED BY <1>1, <1>2

-----------------------------------------------------------------------------
(* What the verdicts are worth.                                             *)

\* "regs" is said of an answer as it was sent, with all registers that are used.
LEMMA RegsMeansIntact ==
  ASSUME op = "read",
         NEW b \in Seq(FrameTokens), NEW rest \in Seq(FrameTokens),
         b \o rest \in ReadReplies,
         NEW v \in Verdicts(b)
  PROVE  /\ v \in {"more", "raise", "short", "regs"}
         /\ v = "regs" => b \in {Intact, Enough}
<1>1. Verdicts(b) \in {read_modbus_block(b), parse_read_holding_response(b)}
  BY DEF Verdicts, IsStream
<1>2. read_modbus_block(b) \subseteq {"more", "raise", "short", "regs"}
  BY DEF read_modbus_block
<1>3. parse_read_holding_response(b) \subseteq {"more", "raise", "short", "regs"}
  BY <1>2 DEF parse_read_holding_response
<1>4. ASSUME "regs" \in read_modbus_block(b) PROVE b \in {Intact, Enough}
  <2>1. /\ Len(b) >= 5 /\ b[1] = "u" /\ b[2] \notin {"e", "x"} /\ b[3] \notin {"x", "o", "t"}
        /\ ~Contains(b, "x")
    BY <1>4 DEF read_modbus_block
  <2> DEFINE r == b \o rest
  <2>2. /\ r \in ReadReplies /\ Len(r) = Len(b) + Len(rest)
        /\ Len(r) \in Nat /\ Len(b) \in Nat /\ Len(rest) \in Nat
    OBVIOUS
  <2>3. \A i \in 1..Len(b) : r[i] = b[i]
    OBVIOUS
  <2> HIDE DEF r
  <2>4. Len(r) <= 5
    BY <2>2, FrameAssumption
  <2>5. Len(r) >= 5 /\ Len(b) <= 5
    BY <2>1, <2>2, <2>4
  <2>6. \A i \in 1..5 : b[i] \in Layout[i]
    <3>1. \A i \in 1..5 : r[i] \in Layout[i]
      BY <2>2, <2>5, FrameAssumption, Zenon
    <3>2. \A i \in 1..5 : i \in 1..Len(b)
      BY <2>1, <2>2
    <3> QED BY <2>3, <3>1, <3>2, Zenon
  <2>7. \A i \in 1..5 : b[i] # "x"
    BY <2>1, <2>2 DEF Contains
  <2>8. b[1] = "u" /\ b[2] = "f" /\ b[3] \in {"n", "s"} /\ b[4] = "d" /\ b[5] = "c"
    BY <2>1, <2>6, <2>7 DEF Layout
  <2>9. Len(b) = 5
    <3>1. \A n \in Nat : n >= 5 /\ n <= 5 => n = 5
      OBVIOUS
    <3> QED BY <2>1, <2>2, <2>5, <3>1, Zenon
  <2>10. b[3] = "n" => b = Intact
    BY <2>8, <2>9 DEF Intact
  <2>11. b[3] = "s" => b = Enough
    BY <2>8, <2>9 DEF Enough
  <2> QED BY <2>8, <2>10, <2>11
<1>5. "regs" \in parse_read_holding_response(b) => "regs" \in read_modbus_block(b)
  BY DEF parse_read_holding_response
<1> QED BY <1>1, <1>2, <1>3, <1>4, <1>5

-----------------------------------------------------------------------------
(* The invariant: of the line, of Modbus, and of what the coordinator knows. *)

LineInv  == SingleShotTypeOK /\ FrameIsReceived /\ NoSocketLeft
BlockInv == ModbusTypeOK /\ OperationHolds /\ SnapshotIsWhole
WireInv  == LineInv /\ BlockInv /\ StrictKeepsDamageOut

\* A step of Modbus leaves the lines alone, and its future has no frame in it.
LEMMA LineKept ==
  ASSUME LineInv, IsModbus, UNCHANGED <<family, strict, open, left, buf>>,
         fut' \in {Idle, Pending, None, Payload}
  PROVE  LineInv'
<1>1. SingleShotTypeOK'
  BY DEF LineInv, SingleShotTypeOK
<1>2. FrameIsReceived'
  BY DEF IsModbus, Lines, Dongles, FrameIsReceived
<1>3. NoSocketLeft'
  BY DEF LineInv, IsModbus, Lines, NoSocketLeft
<1> QED BY <1>1, <1>2, <1>3 DEF LineInv

\* A step of a line, or the end of a query, leaves Modbus alone: the future of a read
\* under way is not theirs.
LEMMA BlockKept ==
  ASSUME BlockInv, UNCHANGED <<modbusVars, family>>,
         IsModbus => fut' = fut \/ (op # "read" /\ fut' # Payload)
  PROVE  BlockInv'
<1>1. IsModbus' = IsModbus /\ IsStream' = IsStream
  BY DEF IsModbus, IsStream
<1>2. ModbusTypeOK'
  BY DEF BlockInv, ModbusTypeOK, modbusVars
<1>3. OperationHolds'
  <2>1. op = "read" => fut' = Pending
    BY OpAssumption DEF BlockInv, OperationHolds
  <2> QED BY <1>1, <2>1 DEF BlockInv, OperationHolds, modbusVars
<1>4. SnapshotIsWhole'
  BY <1>1 DEF BlockInv, SnapshotIsWhole, modbusVars
<1> QED BY <1>2, <1>3, <1>4 DEF BlockInv

\* The steps of a line.
LEMMA LineSteps ==
  ASSUME LineInv, BlockInv, UNCHANGED modbusVars,
         \/ \E reply \in Replies : Connect(reply)
         \/ \E n \in 1..Len(left) : Receive(n)
         \/ \E exc \in BOOLEAN : ConnectionLost(exc)
         \/ TimeoutError \/ NoAnswer \/ fetch_agent_snapshot
         \/ \E reply \in Replies : send_eybond_voltronic(reply)
  PROVE  LineInv' /\ BlockInv'
<1> USE DEF LineInv
<1>1. ASSUME NEW reply \in Replies, Connect(reply) PROVE LineInv' /\ BlockInv'
  <2>1. SingleShotTypeOK'
    BY <1>1, ReplyAssumption DEF Connect, SingleShotTypeOK
  <2>2. FrameIsReceived' /\ NoSocketLeft'
    BY <1>1, MarkAssumption DEF Connect, FrameIsReceived, NoSocketLeft
  <2>3. BlockInv'
    BY <1>1, BlockKept DEF Connect, IsModbus, Lines
  <2> QED BY <2>1, <2>2, <2>3
<1>2. ASSUME NEW n \in 1..Len(left), Receive(n) PROVE LineInv' /\ BlockInv'
  <2>1. SingleShotTypeOK'
    <3>1. buf \in Seq(Tokens) /\ left \in Seq(Tokens) /\ buf \o left \in Replies \cup {<<>>}
      BY DEF SingleShotTypeOK
    <3>2. buf' \in Seq(Tokens) /\ left' \in Seq(Tokens) /\ buf' \o left' = buf \o left
      <4>1. buf' = buf \o SubSeq(left, 1, n) /\ left' = SubSeq(left, n + 1, Len(left))
        BY <1>2 DEF Receive
      <4>2. (buf \o SubSeq(left, 1, n)) \o SubSeq(left, n + 1, Len(left)) = buf \o left
        BY <3>1, Moved, Zenon
      <4>3. buf \o SubSeq(left, 1, n) \in Seq(Tokens)
        BY <3>1, Parts, Zenon
      <4>4. SubSeq(left, n + 1, Len(left)) \in Seq(Tokens)
        BY <3>1, Parts, Zenon
      <4> QED BY <4>1, <4>2, <4>3, <4>4, Zenon
    <3>3. open' \in BOOLEAN
      BY <1>2 DEF Receive, IsComplete, Contains
    <3> QED BY <1>2, <3>1, <3>2, <3>3 DEF Receive, SingleShotTypeOK
  <2>2. family \in Lines /\ fut \in {Pending, None}
    BY <1>2 DEF Receive, NoSocketLeft
  <2>3. FrameIsReceived'
    <3>1. CASE ~IsComplete(buf')
      BY <1>2, <2>2, <3>1 DEF Receive, FrameIsReceived
    <3>2. CASE IsComplete(buf')
      <4>1. \/ fut' \in {fut, None}
            \/ fut' = UpToCR(buf') /\ (strict => IsValid(UpToCR(buf')))
        BY <1>2, <3>2 DEF Receive, Resolve
      <4>2. CASE fut' \in {fut, None}
        BY <2>2, <4>2 DEF FrameIsReceived
      <4>3. CASE fut' = UpToCR(buf') /\ (strict => IsValid(UpToCR(buf')))
        BY <1>2, <2>2, <4>3 DEF Receive, FrameIsReceived, IsValid
      <4> QED BY <4>1, <4>2, <4>3
    <3> QED BY <3>1, <3>2
  <2>4. NoSocketLeft'
    BY <1>2, <2>2 DEF Receive, NoSocketLeft
  <2>5. BlockInv'
    BY <1>2, <2>2, BlockKept DEF Receive, IsModbus, Lines
  <2> QED BY <2>1, <2>3, <2>4, <2>5
<1>3. ASSUME NEW exc \in BOOLEAN, ConnectionLost(exc) PROVE LineInv' /\ BlockInv'
  <2>1. SingleShotTypeOK' /\ NoSocketLeft'
    BY <1>3 DEF ConnectionLost, SingleShotTypeOK, NoSocketLeft
  <2>2. family \in Lines /\ fut' \in {fut, None}
    BY <1>3 DEF ConnectionLost, NoSocketLeft, Resolve
  <2>3. FrameIsReceived'
    BY <1>3, <2>2 DEF ConnectionLost, FrameIsReceived, IsValid
  <2>4. BlockInv'
    BY <1>3, <2>2, BlockKept DEF ConnectionLost, IsModbus, Lines
  <2> QED BY <2>1, <2>3, <2>4
<1>4. ASSUME TimeoutError PROVE LineInv' /\ BlockInv'
  <2>1. SingleShotTypeOK' /\ NoSocketLeft' /\ FrameIsReceived'
    BY <1>4, MarkAssumption DEF TimeoutError, SingleShotTypeOK, NoSocketLeft, FrameIsReceived
  <2>2. BlockInv'
    BY <1>4, BlockKept DEF TimeoutError, IsModbus, Lines
  <2> QED BY <2>1, <2>2
<1>5. ASSUME NoAnswer PROVE LineInv' /\ BlockInv'
  <2>1. SingleShotTypeOK' /\ NoSocketLeft' /\ FrameIsReceived'
    BY <1>5 DEF NoAnswer, SingleShotTypeOK, NoSocketLeft, FrameIsReceived
  <2>2. op # "read"
    BY <1>5, MarkAssumption DEF NoAnswer, BlockInv, OperationHolds
  <2>3. BlockInv'
    BY <1>5, <2>2, OpAssumption, BlockKept DEF NoAnswer
  <2> QED BY <2>1, <2>3
<1>6. ASSUME fetch_agent_snapshot PROVE LineInv' /\ BlockInv'
  <2>1. SingleShotTypeOK' /\ NoSocketLeft' /\ FrameIsReceived'
    BY <1>6 DEF fetch_agent_snapshot, SingleShotTypeOK, NoSocketLeft, FrameIsReceived, Lines,
                Dongles
  <2>2. BlockInv'
    BY <1>6, BlockKept DEF fetch_agent_snapshot, IsModbus
  <2> QED BY <2>1, <2>2
<1>7. ASSUME NEW reply \in Replies, send_eybond_voltronic(reply) PROVE LineInv' /\ BlockInv'
  <2>1. ~open
    BY <1>7, MarkAssumption DEF send_eybond_voltronic, NoSocketLeft
  <2>2. SingleShotTypeOK'
    <3>1. reply \in Seq(Tokens) /\ <<>> \in Seq(Tokens) /\ reply \o <<>> = reply
      BY ReplyAssumption
    <3> QED BY <1>7, <3>1 DEF send_eybond_voltronic, SingleShotTypeOK
  <2>3. FrameIsReceived' /\ NoSocketLeft'
    BY <1>7, <2>1 DEF send_eybond_voltronic, FrameIsReceived, NoSocketLeft
  <2>4. BlockInv'
    BY <1>7, BlockKept DEF send_eybond_voltronic, IsModbus, Dongles
  <2> QED BY <2>2, <2>3, <2>4
<1> QED BY <1>1, <1>2, <1>3, <1>4, <1>5, <1>6, <1>7

\* A read or write starts.
LEMMA OperationStarts ==
  ASSUME LineInv, BlockInv,
         ReadSnapshot \/ write_register
  PROVE  LineInv' /\ BlockInv'
<1>1. ASSUME ReadSnapshot PROVE LineInv' /\ BlockInv'
  <2>1. LineInv'
    BY <1>1, LineKept DEF ReadSnapshot
  <2>2. ~asked
    BY <1>1 DEF ReadSnapshot, BlockInv, OperationHolds
  <2>3. ModbusTypeOK'
    BY <1>1 DEF ReadSnapshot, BlockInv, ModbusTypeOK
  <2>4. OperationHolds'
    BY <1>1, <2>2, OpAssumption DEF ReadSnapshot, BlockInv, OperationHolds, IsModbus
  <2>5. SnapshotIsWhole'
    BY <1>1, OpAssumption DEF ReadSnapshot, SnapshotIsWhole
  <2> QED BY <2>1, <2>3, <2>4, <2>5 DEF BlockInv
<1>2. ASSUME write_register PROVE LineInv' /\ BlockInv'
  <2>1. fut \in {Idle, Pending, None, Payload}
    BY <1>2 DEF write_register, LineInv, FrameIsReceived, IsModbus, Lines, Dongles
  <2>2. LineInv'
    BY <1>2, <2>1, LineKept DEF write_register, wireVars
  <2>3. ~asked
    BY <1>2 DEF write_register, BlockInv, OperationHolds
  <2>4. ModbusTypeOK'
    BY <1>2 DEF write_register, wireVars, BlockInv, ModbusTypeOK
  <2>5. OperationHolds'
    BY <1>2, <2>3 DEF write_register, wireVars, BlockInv, OperationHolds, IsModbus
  <2>6. SnapshotIsWhole'
    BY <1>2 DEF write_register, wireVars, BlockInv, SnapshotIsWhole, IsModbus
  <2> QED BY <2>2, <2>4, <2>5, <2>6 DEF BlockInv
<1> QED BY <1>1, <1>2

\* A request is sent.
LEMMA RequestStep ==
  ASSUME LineInv, BlockInv,
         NEW reply \in ReadReplies \cup WriteReplies, Request(reply)
  PROVE  LineInv' /\ BlockInv'
<1>1. IsModbus
  BY DEF Request, BlockInv, OperationHolds
<1>2. fut \in {Idle, Pending, None, Payload}
  BY <1>1 DEF LineInv, FrameIsReceived, IsModbus, Lines, Dongles
<1>3. LineInv'
  BY <1>1, <1>2, LineKept DEF Request, wireVars
<1>4. rx' \o coming' = reply /\ reply \in Seq(FrameTokens)
  BY FrameAssumption DEF Request
<1>5. ModbusTypeOK'
  BY <1>4 DEF Request, wireVars, BlockInv, ModbusTypeOK
<1>6. OperationHolds'
  <2>1. rx' \o coming' \in IF op = "read" THEN ReadReplies ELSE WriteReplies
    BY <1>4 DEF Request
  <2> QED BY <1>1, <2>1 DEF Request, wireVars, BlockInv, OperationHolds, IsModbus
<1>7. SnapshotIsWhole'
  BY DEF Request, wireVars, BlockInv, SnapshotIsWhole, IsModbus
<1> QED BY <1>3, <1>5, <1>6, <1>7 DEF BlockInv

\* A request ends with a verdict that is worth what it says.
LEMMA EndsStep ==
  ASSUME LineInv, BlockInv, op # Idle, NEW v, Ends(v),
         rx' \in Seq(FrameTokens), UNCHANGED <<family, strict, open, left, buf>>,
         op = "read" /\ v = "regs" => rx' \in {Intact, Enough}
  PROVE  LineInv' /\ BlockInv'
<1>1. IsModbus /\ IsModbus'
  BY DEF BlockInv, OperationHolds, IsModbus
<1>2. fut \in {Idle, Pending, None, Payload}
  BY <1>1 DEF LineInv, FrameIsReceived, IsModbus, Lines, Dongles
<1>3. /\ asked' = FALSE /\ coming' = <<>>
      /\ op = "read" => SnapshotStep(v)
      /\ op # "read" => WriteStep(v)
      /\ whole' = IF op = "read" /\ rx' \in {Intact, Enough} THEN whole \cup {step} ELSE whole
  BY DEF Ends
<1>4. CASE op = "read"
  <2>1. SnapshotStep(v) /\ fut = Pending /\ step \in {100, 200, 300}
    BY <1>3, <1>4 DEF BlockInv, OperationHolds
  <2>2. LineInv'
    BY <1>1, <2>1, LineKept DEF SnapshotStep
  <2>3. v = "regs" => whole' = whole \cup {step}
    BY <1>3, <1>4
  <2>4. whole \subseteq whole' /\ whole' \subseteq whole \cup {step}
    BY <1>3
  <2>5. faults' \in BOOLEAN
    BY <2>1 DEF SnapshotStep, BlockInv, ModbusTypeOK
  <2>6. ModbusTypeOK'
    <3>1. op' \in {Idle, "read", "write"} /\ step' \in {0, 100, 200, 300, 6, 16}
      BY <1>4, <2>1 DEF SnapshotStep
    <3>2. whole' \subseteq {100, 200, 300}
      BY <2>1, <2>4 DEF BlockInv, ModbusTypeOK
    <3>3. coming' \in Seq(FrameTokens)
      BY <1>3
    <3>4. ack' = ack
      BY <2>1 DEF SnapshotStep
    <3> QED BY <1>3, <2>5, <3>1, <3>2, <3>3, <3>4 DEF BlockInv, ModbusTypeOK
  <2>7. faults' => 100 \in whole'
    <3>1. CASE step = 100
      <4>1. faults' = (v = "regs")
        BY <2>1, <3>1 DEF SnapshotStep
      <4> QED BY <2>3, <3>1, <4>1
    <3>2. CASE step # 100
      <4>1. faults' = faults
        BY <2>1, <3>2 DEF SnapshotStep
      <4> QED BY <1>4, <2>4, <4>1 DEF BlockInv, OperationHolds
    <3> QED BY <3>1, <3>2
  <2>8. OperationHolds'
    <3>1. CASE op' = Idle
      BY <1>3, <3>1, OpAssumption DEF OperationHolds
    <3>2. CASE op' # Idle
      <4>1. /\ op' = "read" /\ step' = step + 100 /\ fut' = Pending
            /\ step = 100 \/ (step = 200 /\ v = "regs")
        BY <1>4, <2>1, <3>2 DEF SnapshotStep
      <4>2. step' = 300 => 200 \in whole'
        BY <2>3, <4>1
      <4> QED BY <1>1, <1>3, <2>7, <4>1, <4>2 DEF OperationHolds
    <3> QED BY <3>1, <3>2
  <2>9. SnapshotIsWhole'
    BY <1>4, <2>1, <2>3, <2>4, <2>7, OpAssumption
       DEF SnapshotStep, BlockInv, OperationHolds, SnapshotIsWhole
  <2> QED BY <2>2, <2>6, <2>8, <2>9 DEF BlockInv
<1>5. CASE op # "read"
  <2>1. WriteStep(v) /\ op = "write" /\ ack = None
    BY <1>3, <1>5 DEF BlockInv, OperationHolds, ModbusTypeOK
  <2>2. LineInv'
    BY <1>1, <1>2, <2>1, LineKept DEF WriteStep
  <2>3. ModbusTypeOK'
    <3>1. op' \in {Idle, "read", "write"} /\ step' = 16 /\ faults' = faults /\ whole' = whole
      BY <1>3, <2>1, <1>5 DEF WriteStep
    <3>2. coming' \in Seq(FrameTokens)
      BY <1>3
    <3>3. ack' \in {None, "OK", "error"}
      BY <2>1 DEF WriteStep
    <3> QED BY <1>3, <3>1, <3>2, <3>3 DEF BlockInv, ModbusTypeOK
  <2>4. OperationHolds'
    <3>1. CASE op' = Idle
      BY <1>3, <3>1, OpAssumption DEF OperationHolds
    <3>2. CASE op' # Idle
      BY <1>1, <1>3, <2>1, <3>2 DEF WriteStep, OperationHolds
    <3> QED BY <3>1, <3>2
  <2>5. SnapshotIsWhole'
    BY <1>1, <1>3, <1>5, <2>1 DEF WriteStep, BlockInv, SnapshotIsWhole
  <2> QED BY <2>2, <2>3, <2>4, <2>5 DEF BlockInv
<1> QED BY <1>4, <1>5

\* A part of the answer arrives: it is not enough, or it ends the request.
LEMMA ArriveStep ==
  ASSUME LineInv, BlockInv, NEW n \in 1..Len(coming), Arrive(n)
  PROVE  LineInv' /\ BlockInv'
<1> DEFINE rest == SubSeq(coming, n + 1, Len(coming))
<1>1. /\ asked /\ op # Idle /\ IsModbus /\ op \in {"read", "write"}
      /\ rx \in Seq(FrameTokens) /\ coming \in Seq(FrameTokens)
      /\ rx \o coming \in IF op = "read" THEN ReadReplies ELSE WriteReplies
      /\ UNCHANGED <<family, strict, open, left, buf>>
  BY DEF Arrive, BlockInv, OperationHolds, ModbusTypeOK
<1>2. rx' = rx \o SubSeq(coming, 1, n)
  BY DEF Arrive
<1>3. rx' \in Seq(FrameTokens)
  <2>1. rx \o SubSeq(coming, 1, n) \in Seq(FrameTokens)
    BY <1>1, Parts, Zenon
  <2> QED BY <1>2, <2>1, Zenon
<1>4. rest \in Seq(FrameTokens)
  BY <1>1, Parts, Zenon
<1>5. rx' \o rest = rx \o coming
  <2>1. (rx \o SubSeq(coming, 1, n)) \o rest = rx \o coming
    BY <1>1, Moved, Zenon
  <2> QED BY <1>2, <2>1, Zenon
<1>6. PICK v \in Verdicts(rx') :
         IF v = "more"
           THEN /\ coming' = rest
                /\ UNCHANGED <<op, step, asked, fut, faults, ack, whole>>
           ELSE Ends(v)
  BY DEF Arrive
<1> HIDE DEF rest
<1>7. CASE v = "more"
  <2>1. coming' = rest /\ UNCHANGED <<op, step, asked, fut, faults, ack, whole>>
    BY <1>6, <1>7
  <2>2. rx' \o coming' = rx \o coming
    BY <1>5, <2>1, Zenon
  <2>3. fut \in {Idle, Pending, None, Payload}
    BY <1>1 DEF LineInv, FrameIsReceived, IsModbus, Lines, Dongles
  <2>4. LineInv'
    BY <1>1, <2>1, <2>3, LineKept
  <2>5. ModbusTypeOK'
    BY <1>3, <1>4, <2>1 DEF BlockInv, ModbusTypeOK
  <2>6. OperationHolds'
    <3>1. rx' \o coming' \in IF op' = "read" THEN ReadReplies ELSE WriteReplies
      BY <1>1, <2>1, <2>2, Zenon
    <3> QED BY <1>1, <2>1, <3>1 DEF BlockInv, OperationHolds, IsModbus
  <2>7. SnapshotIsWhole'
    BY <1>1, <2>1 DEF BlockInv, SnapshotIsWhole, IsModbus
  <2> QED BY <2>4, <2>5, <2>6, <2>7 DEF BlockInv
<1>8. CASE v # "more"
  <2>1. Ends(v)
    BY <1>6, <1>8
  <2>2. ASSUME op = "read" /\ v = "regs" PROVE rx' \in {Intact, Enough}
    <3>1. rx' \o rest \in ReadReplies
      BY <1>1, <1>5, <2>2, Zenon
    <3> QED BY <1>3, <1>4, <2>2, <3>1, RegsMeansIntact, Zenon
  <2> QED BY <1>1, <1>3, <2>1, <2>2, EndsStep, Zenon
<1> QED BY <1>7, <1>8

\* A request that gets no answer ends with an error.
LEMMA RequestFailsStep ==
  ASSUME LineInv, BlockInv, RequestFails
  PROVE  LineInv' /\ BlockInv'
<1>1. /\ op # Idle /\ Ends("raise") /\ UNCHANGED <<family, strict, open, left, buf>>
      /\ rx' = <<>>
  BY DEF RequestFails
<1>2. rx' \in Seq(FrameTokens)
  BY <1>1
<1> QED BY <1>1, <1>2, EndsStep

\* What the coordinator makes of an answer: nothing that is damaged.
LEMMA AnswerIsSound ==
  ASSUME LineInv, BlockInv, StrictKeepsDamageOut, GetData
  PROVE  LineInv' /\ BlockInv' /\ StrictKeepsDamageOut'
<1>1. Return /\ UNCHANGED modbusVars
  BY DEF GetData
<1>2. LineInv'
  <2>1. buf' \in Seq(Tokens) /\ left' \in Seq(Tokens) /\ buf' \o left' = <<>>
    BY <1>1 DEF Return
  <2>2. SingleShotTypeOK'
    BY <1>1, <2>1 DEF Return, LineInv, SingleShotTypeOK
  <2>3. FrameIsReceived' /\ NoSocketLeft'
    BY <1>1 DEF Return, LineInv, FrameIsReceived, NoSocketLeft
  <2> QED BY <2>2, <2>3 DEF LineInv
<1>3. op # "read"
  BY <1>1 DEF Return, BlockInv, OperationHolds
<1>4. BlockInv'
  BY <1>1, <1>3, OpAssumption, BlockKept DEF Return
<1> DEFINE how == IF fut = None THEN "nothing" ELSE Decoded(fut)
<1>5. IsChecked => how # "damaged" /\ (family = "pi18" \/ IsModbus => how # "shifted")
  <2>1. CASE fut = None
    BY <2>1
  <2>2. CASE fut # None /\ family \in Lines
    <3>1. fut = UpToCR(buf) /\ (strict => IsValid(fut)) /\ ~IsModbus
      BY <1>1, <2>2 DEF Return, LineInv, FrameIsReceived, IsModbus, Lines, Dongles
    <3>2. fut \in Seq(Tokens)
      BY <3>1, UpToCRIsSeq DEF LineInv, SingleShotTypeOK
    <3> QED BY <2>2, <3>1, <3>2, ValidIsNotDamaged DEF IsChecked
  <2>3. CASE fut # None /\ IsModbus
    <3>1. fut = Payload
      BY <1>1, <2>3 DEF Return, LineInv, FrameIsReceived, IsModbus, Lines, Dongles
    <3>2. Decoded(Payload) = "intact"
      BY DEF Decoded, LosesItsEnd, Payload, Contains
    <3> QED BY <2>3, <3>1, <3>2
  <2> QED BY <2>1, <2>2, <2>3 DEF IsChecked
<1>6. known'.how \in {known.how, "blank"} \/ known'.how = how
  BY DEF GetData, Accept, Publish, Retry, GiveUp
<1>7. family' = family /\ strict' = strict
  BY <1>1 DEF Return
<1> HIDE DEF how
<1>8. StrictKeepsDamageOut'
  BY <1>5, <1>6, <1>7 DEF StrictKeepsDamageOut, IsChecked, IsModbus
<1> QED BY <1>2, <1>4, <1>8

\* The first states.
LEMMA WireInit ==
  ASSUME Init
  PROVE  WireInv
<1>1. SingleShotTypeOK
  <2>1. <<>> \in Seq(Tokens) /\ <<>> \o <<>> = <<>>
    OBVIOUS
  <2>2. buf = <<>> /\ left = <<>> /\ open = FALSE /\ family \in Families /\ strict \in BOOLEAN
    BY DEF Init, SingleShotInit
  <2> QED BY <2>1, <2>2, Zenon DEF SingleShotTypeOK
<1>2. FrameIsReceived /\ NoSocketLeft
  BY DEF Init, SingleShotInit, FrameIsReceived, NoSocketLeft
<1>3. ModbusTypeOK
  <2>1. rx \in Seq(FrameTokens) /\ coming \in Seq(FrameTokens)
    BY DEF Init, ModbusInit
  <2>2. /\ op = Idle /\ step = 0 /\ asked = FALSE /\ faults = FALSE
        /\ ack = None /\ whole = {}
    BY DEF Init, ModbusInit
  <2>3. asked \in BOOLEAN /\ faults \in BOOLEAN
    BY <2>2, Zenon
  <2> QED BY <2>1, <2>2, <2>3, Zenon DEF ModbusTypeOK
<1>4. OperationHolds
  BY OpAssumption DEF Init, ModbusInit, OperationHolds
<1>5. SnapshotIsWhole
  BY OpAssumption DEF Init, SingleShotInit, ModbusInit, SnapshotIsWhole
<1>6. StrictKeepsDamageOut
  BY DEF Init, StrictKeepsDamageOut
<1> QED BY <1>1, <1>2, <1>3, <1>4, <1>5, <1>6 DEF WireInv, LineInv, BlockInv

\* A step that leaves the bus and the coordinator's data alone.
LEMMA BusAlone ==
  ASSUME WireInv, UNCHANGED <<busVars, known>>
  PROVE  WireInv'
<1>1. IsModbus' = IsModbus /\ IsStream' = IsStream
  BY DEF IsModbus, IsStream, busVars, wireVars
<1>2. LineInv'
  BY DEF WireInv, LineInv, SingleShotTypeOK, FrameIsReceived, NoSocketLeft, IsValid,
         busVars, wireVars
<1>3. BlockInv'
  BY BlockKept DEF WireInv, busVars, wireVars
<1>4. StrictKeepsDamageOut'
  BY <1>1 DEF WireInv, StrictKeepsDamageOut, IsChecked, busVars, wireVars
<1> QED BY <1>2, <1>3, <1>4 DEF WireInv

\* Home Assistant restarts: no query survives.
LEMMA RestartStep ==
  ASSUME WireInv, NEW orderly \in BOOLEAN, Restart(orderly)
  PROVE  WireInv'
<1>1. LineInv'
  <2>1. buf' \in Seq(Tokens) /\ left' \in Seq(Tokens) /\ buf' \o left' = <<>>
    BY DEF Restart
  <2>2. SingleShotTypeOK'
    BY <2>1 DEF Restart, WireInv, LineInv, SingleShotTypeOK
  <2>3. FrameIsReceived' /\ NoSocketLeft'
    BY DEF Restart, WireInv, LineInv, FrameIsReceived, NoSocketLeft
  <2> QED BY <2>2, <2>3 DEF LineInv
<1>2. ModbusTypeOK'
  <2>1. coming' \in Seq(FrameTokens)
    BY DEF Restart
  <2> QED BY <2>1 DEF Restart, WireInv, BlockInv, ModbusTypeOK
<1>3. OperationHolds'
  BY OpAssumption DEF Restart, OperationHolds
<1>4. SnapshotIsWhole'
  BY OpAssumption DEF Restart, WireInv, BlockInv, SnapshotIsWhole
<1>5. StrictKeepsDamageOut'
  BY DEF Restart, StrictKeepsDamageOut
<1> QED BY <1>1, <1>2, <1>3, <1>4, <1>5 DEF WireInv, BlockInv

\* Every step keeps the invariant.
LEMMA WireStep ==
  ASSUME WireInv, [Next]_vars
  PROVE  WireInv'
<1>1. CASE Query
  <2>1. LineInv' /\ BlockInv'
    BY <1>1, LineSteps DEF Query, WireInv
  <2>2. UNCHANGED <<family, strict, known>>
    BY <1>1 DEF Query, Connect, Receive, ConnectionLost, TimeoutError, NoAnswer,
                fetch_agent_snapshot, send_eybond_voltronic
  <2> QED BY <2>1, <2>2 DEF WireInv, StrictKeepsDamageOut, IsChecked, IsModbus
<1>2. CASE ModbusQuery
  <2>1. LineInv' /\ BlockInv'
    BY <1>2, OperationStarts, RequestStep, ArriveStep, RequestFailsStep
       DEF ModbusQuery, ModbusStep, WireInv
  <2>2. UNCHANGED <<family, strict, known>>
    BY <1>2 DEF ModbusQuery, ModbusStep, ReadSnapshot, write_register, Request,
                Arrive, RequestFails, wireVars
  <2> QED BY <2>1, <2>2 DEF WireInv, StrictKeepsDamageOut, IsChecked, IsModbus
<1>3. CASE GetData
  BY <1>3, AnswerIsSound DEF WireInv
<1>4. CASE \E e \in Edits : async_set_native_value(e.key, e.value)
  BY <1>4, BusAlone DEF async_set_native_value, Changed
<1>5. CASE \E option \in Options : async_select_option(option)
  BY <1>5, BusAlone DEF async_select_option, Changed
<1>6. CASE \E on \in BOOLEAN : async_turn(on)
  BY <1>6, BusAlone DEF async_turn, Changed
<1>7. CASE Dump
  BY <1>7, BusAlone DEF Dump
<1>8. CASE \E orderly \in BOOLEAN : Restart(orderly)
  BY <1>8, RestartStep
<1>9. CASE AddSensors
  BY <1>9, BusAlone DEF AddSensors
<1>10. CASE AddNumbers \/ AddSelect \/ AddSwitch
  BY <1>10, BusAlone DEF AddNumbers, AddSelect, AddSwitch, Added
<1>11. CASE UNCHANGED vars
  BY <1>11, BusAlone DEF vars
<1> QED BY <1>1, <1>2, <1>3, <1>4, <1>5, <1>6, <1>7, <1>8, <1>9, <1>10, <1>11 DEF Next

\* The invariant of the line holds in every behaviour.
THEOREM WireSafety == Spec => []WireInv
<1>1. Init => WireInv
  BY WireInit
<1>2. WireInv /\ [Next]_vars => WireInv'
  BY WireStep
<1> QED BY <1>1, <1>2, PTL DEF Spec

\* With strict_crc on a TCP or serial line, and with Modbus, what the validators reject
\* never becomes a sensor's value, for whatever the line may carry and however it is
\* split (crc.py, elfin_tcp.py, serial_uart.py, pi18_tcp.py, modbus_rtu.py).  EyBond's
\* PI30 and PI18, which are offered the option and ignore it, are the property's named
\* exception.
THEOREM StrictKeepsDamageOutHolds == Spec => []StrictKeepsDamageOut
<1>1. WireInv => StrictKeepsDamageOut
  BY DEF WireInv
<1> QED BY <1>1, WireSafety, PTL

\* A snapshot is made of blocks of one read that came as they were sent and with all the
\* registers that are used, for all answers that damage, truncation and exceptions make
\* of a frame (read_smg2_snapshot_via).
THEOREM SnapshotIsWholeHolds == Spec => []SnapshotIsWhole
<1>1. WireInv => SnapshotIsWhole
  BY DEF WireInv, BlockInv
<1> QED BY <1>1, WireSafety, PTL
=============================================================================
