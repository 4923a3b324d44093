------------------------------- MODULE Modbus -------------------------------
(***************************************************************************)
(* SMG-II inverters over Modbus RTU (modbus_rtu.py, adapters/modbus.py): a  *)
(* snapshot of three register blocks, and the write of one register, with a *)
(* TCP connection for each request ("modbus") or through an EyBond dongle   *)
(* ("eybond-modbus").  Reads and writes of a device take turns.             *)
(*                                                                          *)
(* A frame is a sequence of tokens: "u" the unit id; "f" a function, "e"    *)
(* one with the exception bit; "n" the byte count of what was asked for,    *)
(* "s" of fewer registers, but all that the snapshot uses, "t" of too few,  *)
(* "o" an odd one; "d" the data; "a" the address and "v" the value of an    *)
(* echo, "w" those of another write; "k" the exception's code; "c" the CRC; *)
(* "x" bytes that were damaged.                                             *)
(***************************************************************************)
EXTENDS SingleShot

CONSTANTS
  ReadReplies,   \* what may come in answer to the read of a block
  WriteReplies   \* what may come in answer to a write

VARIABLES
  op,            \* Idle, "read" or "write"
  step,          \* the block that is read: 100, 200, 300; the function that writes: 6, 16
  asked,         \* a request is on its way or waits for its answer
  coming,        \* the part of the answer that has not arrived
  rx,            \* the part that has
  faults,        \* the snapshot has fault and warning codes
  ack,           \* what write_register returned: None, "OK" or "error"
  whole          \* history: the blocks of this snapshot that came as they were sent

modbusVars == <<op, step, asked, coming, rx, faults, ack, whole>>

IsModbus == family \in {"modbus", "eybond-modbus"}
IsStream == family = "modbus"

Intact == <<"u", "f", "n", "d", "c">>
Enough == <<"u", "f", "s", "d", "c">>
Echo   == <<"u", "f", "a", "v", "c">>

\* The tokens of a frame, and which of them the answer to a read, if whole, has where.
FrameTokens == {"u", "f", "e", "n", "s", "t", "o", "d", "a", "v", "w", "k", "c", "x"}
Layout == <<{"u", "x"}, {"f", "e", "x"}, {"n", "s", "t", "o", "x"}, {"d", "x"}, {"c", "x"}>>

ASSUME FrameAssumption ==
  /\ \A r \in ReadReplies \cup WriteReplies : r \in Seq(FrameTokens) /\ Len(r) <= 5
  /\ \A r \in ReadReplies : Len(r) >= 5 => \A i \in 1..5 : r[i] \in Layout[i]

ASSUME OpAssumption == Idle \notin {"read", "write"} /\ Payload \notin {Idle, Pending, None}

-----------------------------------------------------------------------------
(* The register map.                                                        *)

_i16(v) == IF v >= 32768 THEN v - 65536 ELSE v

\* int() of tenths, in tenths.
Whole(tenths) == (tenths \div 10) * 10

AbsInt(x) == IF x < 0 THEN -x ELSE x

\* smg2_to_qpigs and, for the voltages, smg2_to_qpiri: currents lose their fraction;
\* the inverter has no BMS, second string or status bits, whose fields are constants
\* or missing.
smg2_to_qpigs(s) ==
  LET i == _i16(s.i)
  IN  [v |-> s.v, chg |-> IF i > 0 THEN Whole(i) ELSE 0, dis |-> IF i < 0 THEN Whole(-i) ELSE 0,
       pv |-> _i16(s.pv), load |-> AbsInt(_i16(s.load)), pv2 |-> None,
       bms |-> 100, bits |-> 0, bulk |-> s.bulk, float |-> s.float]

-----------------------------------------------------------------------------
(* Answers: the possible verdicts on the bytes so far, where "more" waits   *)
(* for others and "raise" is an error of any kind.                          *)

\* The reader asks for the header, the byte count, and then for what it announces: a
\* damaged function or count makes it wait for a wrong number of bytes, and then the
\* CRC is wrong.
read_modbus_block(b) ==
  IF Len(b) < 2 THEN {"more"}
  ELSE IF b[1] # "u" THEN {"raise"}
  ELSE IF b[2] = "e" THEN {IF Len(b) < 4 THEN "more" ELSE "raise"}
  ELSE IF Len(b) < 4 THEN {"more"}
  ELSE IF "x" \in {b[2], b[3]} THEN {"more", "raise"}
  ELSE IF Len(b) < 5 THEN {"more"}
  ELSE IF Contains(b, "x") \/ b[3] = "o" THEN {"raise"}
  ELSE {IF b[3] = "t" THEN "short" ELSE "regs"}

\* The dongle returns the frame as a whole; there is nothing to wait for.
parse_read_holding_response(b) == {IF v = "more" THEN "raise" ELSE v : v \in read_modbus_block(b)}

\* _send reads 8 bytes, which an exception does not have; of these it looks at the CRC,
\* the unit id and the exception bit: the echo of another write will do.
SendVerdict(b) ==
  IF Len(b) < 5 THEN {"more"}
  ELSE {IF Contains(b, "x") \/ b[1] # "u" \/ b[2] = "e" THEN "raise" ELSE "ok"}

\* The same, but between 4 and 7 bytes the CRC is not looked at.
parse_write_response(b) ==
  IF Len(b) < 3 THEN {"raise"}
  ELSE IF b[2] = "e" \/ b[1] # "u" THEN {"raise"}
  ELSE IF Len(b) >= 5 THEN {IF Contains(b, "x") THEN "raise" ELSE "ok"}
  ELSE IF b[2] = "x" THEN {"ok", "raise"} ELSE {"ok"}

Verdicts(b) ==
  CASE op = "read"  /\ IsStream  -> read_modbus_block(b)
    [] op = "read"  /\ ~IsStream -> parse_read_holding_response(b)
    [] op = "write" /\ IsStream  -> SendVerdict(b)
    [] op = "write" /\ ~IsStream -> parse_write_response(b)

-----------------------------------------------------------------------------
(* A request, and what its end leads to.                                    *)

\* Mutant: the ratings are optional as well.
SnapshotStep_Lenient(v) ==
  /\ op' = IF step < 300 THEN op ELSE Idle
  /\ step' = IF step < 300 THEN step + 100 ELSE step
  /\ faults' = IF step = 100 THEN v = "regs" ELSE faults
  /\ fut' = IF step < 300 THEN fut ELSE Payload
  /\ UNCHANGED ack

\* read_smg2_snapshot_via: fault codes are optional; without the other blocks, or with
\* too few registers in them (an IndexError), there is no snapshot.
SnapshotStep(v) ==
  LET fails == step > 100 /\ v # "regs"
      ends  == fails \/ step = 300
  IN  /\ op' = IF ends THEN Idle ELSE op
      /\ step' = IF ends THEN step ELSE step + 100
      /\ faults' = IF step = 100 THEN v = "regs" ELSE faults
      /\ fut' = IF fails THEN None ELSE IF ends THEN Payload ELSE fut
      /\ UNCHANGED ack

\* write_modbus_single_register, write_register: 0x06, and 0x10 if that fails.
WriteStep(v) ==
  LET ends == v = "ok" \/ step = 16
  IN  /\ op' = IF ends THEN Idle ELSE op
      /\ step' = 16
      /\ ack' = IF ~ends THEN ack ELSE IF v = "ok" THEN "OK" ELSE "error"
      /\ UNCHANGED <<fut, faults>>

Ends(v) ==
  /\ asked' = FALSE /\ coming' = <<>>
  /\ IF op = "read" THEN SnapshotStep(v) ELSE WriteStep(v)
  /\ whole' = IF op = "read" /\ rx' \in {Intact, Enough} THEN whole \cup {step} ELSE whole

\* _cached_snapshot, when what it holds is too old.
ReadSnapshot ==
  /\ IsModbus /\ op = Idle /\ fut = Idle
  /\ op' = "read" /\ step' = 100 /\ fut' = Pending
  /\ faults' = FALSE /\ whole' = {}
  /\ UNCHANGED <<family, strict, open, left, buf, asked, coming, rx, ack>>

\* A setter writes a register: what it holds then is Coordinator's matter.  The bound is
\* one write in a behaviour.
write_register ==
  /\ IsModbus /\ op = Idle /\ ack = None
  /\ op' = "write" /\ step' = 6
  /\ UNCHANGED <<wireVars, asked, coming, rx, faults, ack, whole>>

\* A request goes out.  The snapshot uses 10 of the 16 registers of the first block, 27
\* of the 31 of the second, and the last of the third.
Request(reply) ==
  /\ op # Idle /\ ~asked
  /\ reply \in IF op = "read" THEN ReadReplies ELSE WriteReplies
  /\ step = 300 => ~Contains(reply, "s")
  /\ asked' = TRUE /\ coming' = reply /\ rx' = <<>>
  /\ UNCHANGED <<wireVars, op, step, faults, ack, whole>>

\* n more tokens arrive; from a dongle, all of them.
Arrive(n) ==
  /\ asked /\ (IsStream \/ n = Len(coming))
  /\ rx' = rx \o SubSeq(coming, 1, n)
  /\ \E v \in Verdicts(rx') :
       IF v = "more"
         THEN /\ coming' = SubSeq(coming, n + 1, Len(coming))
              /\ UNCHANGED <<op, step, asked, fut, faults, ack, whole>>
         ELSE Ends(v)
  /\ UNCHANGED <<family, strict, open, left, buf>>

\* Refused, lost, timed out, or the dongle has no answer.
RequestFails ==
  /\ op # Idle
  /\ rx' = <<>>
  /\ Ends("raise")
  /\ UNCHANGED <<family, strict, open, left, buf>>

ModbusInit ==
  /\ op = Idle /\ step = 0 /\ asked = FALSE /\ coming = <<>> /\ rx = <<>>
  /\ faults = FALSE /\ ack = None /\ whole = {}

ModbusStep ==
  \/ ReadSnapshot
  \/ write_register
  \/ \E reply \in ReadReplies \cup WriteReplies : Request(reply)
  \/ \E n \in 1..Len(coming) : Arrive(n)
  \/ RequestFails

-----------------------------------------------------------------------------
ModbusTypeOK ==
  /\ op \in {Idle, "read", "write"} /\ step \in {0, 100, 200, 300, 6, 16}
  /\ asked \in BOOLEAN /\ faults \in BOOLEAN /\ ack \in {None, "OK", "error"}
  /\ rx \in Seq(FrameTokens) /\ coming \in Seq(FrameTokens)
  /\ whole \subseteq {100, 200, 300}

\* What an operation under way has behind it: a write no acknowledgement, a read the
\* blocks of its snapshot.
OperationHolds ==
  /\ op # Idle => IsModbus
  /\ asked => /\ op # Idle
              /\ rx \o coming \in IF op = "read" THEN ReadReplies ELSE WriteReplies
  /\ op = "read" => /\ fut = Pending /\ step \in {100, 200, 300}
                    /\ step = 300 => 200 \in whole
                    /\ faults => step > 100 /\ 100 \in whole
  /\ op = "write" => ack = None /\ step \in {6, 16}

\* A snapshot is made of blocks that came undamaged and with every register that is
\* used of them: telemetry and ratings, both of this read, and no fault codes but those
\* of its own first block, in whatever order blocks are damaged, cut short, refused or
\* lost.
SnapshotIsWhole ==
  IsModbus /\ fut = Payload => /\ {200, 300} \subseteq whole
                               /\ faults => 100 \in whole
=============================================================================
