----------------------------- MODULE SingleShot -----------------------------
(***************************************************************************)
(* One command and its reply: the Voltronic and PI18 protocols over TCP and *)
(* serial lines, with a connection for each command (elfin_tcp.py,          *)
(* serial_uart.py, pi18_tcp.py, crc.py, adapters/voltronic.py); the same    *)
(* two through an EyBond dongle, whose session is EybondSessions' matter    *)
(* (adapters/eybond.py); and the agent's HTTP snapshot (adapters/agent.py,  *)
(* agent_http.py).                                                          *)
(*                                                                          *)
(* A reply is a sequence of tokens: "(" the start of a frame ("^D" for      *)
(* PI18), "p" an intact payload, "N" a negative one, "c" the CRC bytes,     *)
(* "CR", "LF", "x" bytes that do not belong there.  It comes in chunks.     *)
(***************************************************************************)
EXTENDS Integers, Sequences, SequencesExt

CONSTANTS
  Families,      \* transports: Lines, Dongles, "agent", and those of Modbus
  Replies,       \* what a line may carry in answer to a command
  None, Idle, Pending

VARIABLES
  family,        \* the device's transport
  strict,        \* option strict_crc
  open,          \* the transport is open
  left,          \* bytes of the reply that have not arrived
  buf,           \* buffer of the protocol object
  fut            \* Idle, Pending, None (an error, a timeout) or the raw frame

Lines   == {"tcp", "serial", "pi18"}
Dongles == {"eybond", "eybond-pi18"}

wireVars == <<family, strict, open, left, buf, fut>>

\* The tokens of a reply; the marks are none of the values they stand beside.
Tokens == {"(", "p", "N", "c", "CR", "LF", "x"}

ASSUME ReplyAssumption == \A r \in Replies : r \in Seq(Tokens)

ASSUME MarkAssumption == Idle # Pending /\ Idle # None /\ Pending # None

SingleShotInit ==
  /\ family \in Families /\ strict \in BOOLEAN
  /\ strict => family \in Lines \cup Dongles     \* the form offers it to no other
  /\ open = FALSE /\ left = <<>> /\ buf = <<>> /\ fut = Idle

-----------------------------------------------------------------------------
(* Frames.                                                                  *)

\* The bytes before the first CR, all of them if there is none.
UpToCR(b) == LET i == SelectInSeq(b, LAMBDA t : t = "CR")
             IN  IF i = 0 THEN b ELSE SubSeq(b, 1, i - 1)

\* The TCP protocol ends a reply on LF as well, and still splits it at CR.
IsComplete(b) == Contains(b, "CR") \/ (family = "tcp" /\ Contains(b, "LF"))

\* validate_voltronic_response: whatever comes before the start is skipped.
validate_voltronic_response(raw) ==
  LET i == SelectInSeq(raw, LAMBDA t : t = "(")
  IN  SubSeq(raw, i + 1, Len(raw)) \in {<<"p", "c">>, <<"N", "c">>}

validate_pi18_response(raw) == raw \in {<<"(", "p", "c">>, <<"(", "N", "c">>}

IsValid_OneForBoth(raw) == validate_voltronic_response(raw)   \* mutant: one for both protocols
IsValid(raw) == IF family = "pi18" THEN validate_pi18_response(raw)
                                   ELSE validate_voltronic_response(raw)

-----------------------------------------------------------------------------
\* on_response: the first result counts.
Resolve(x) == IF fut = Pending THEN x ELSE fut

\* create_connection, connection_made: the command is sent.
Connect(reply) ==
  /\ family \in Lines /\ fut = Idle
  /\ open' = TRUE /\ fut' = Pending /\ left' = reply /\ buf' = <<>>
  /\ UNCHANGED <<family, strict>>

\* data_received with n more tokens.
Receive(n) ==
  /\ open
  /\ buf' = buf \o SubSeq(left, 1, n)
  /\ left' = SubSeq(left, n + 1, Len(left))
  /\ open' = ~IsComplete(buf')
  /\ fut' = IF ~IsComplete(buf') THEN fut
            ELSE Resolve(IF strict /\ ~IsValid(UpToCR(buf')) THEN None ELSE UpToCR(buf'))
  /\ UNCHANGED <<family, strict>>

\* connection_lost: an orderly end of the connection resolves nothing.
ConnectionLost(exc) ==
  /\ open
  /\ open' = FALSE
  /\ fut' = IF exc THEN Resolve(None) ELSE fut
  /\ UNCHANGED <<family, strict, left, buf>>

\* wait_for gives up on the future.
TimeoutError ==
  /\ family \in Lines /\ fut = Pending
  /\ fut' = None
  /\ UNCHANGED <<family, strict, open, left, buf>>

\* Nothing to wait for: the connection is refused; no dongle answers, or its port cannot
\* be bound; the agent is not reachable, its answer is not a snapshot, or the snapshot is
\* older than AGENT_STALE_THRESHOLD_MS; a failed Modbus read is still in the cache.
NoAnswer ==
  /\ fut = Idle
  /\ fut' = None
  /\ UNCHANGED <<family, strict, open, left, buf>>

\* An answer that needs no decoding.
Payload == <<"(", "p", "c">>

\* The agent's snapshot.
fetch_agent_snapshot ==
  /\ family = "agent" /\ fut = Idle
  /\ fut' = Payload
  /\ UNCHANGED <<family, strict, open, left, buf>>

\* What the dongle forwards comes as a whole.  The adapter takes strict_crc and makes no
\* use of it: no CRC is checked; the decoders cut at CR.
send_eybond_voltronic(reply) ==
  /\ family \in Dongles /\ fut = Idle
  /\ buf' = reply /\ left' = <<>> /\ fut' = UpToCR(reply)
  /\ UNCHANGED <<family, strict, open>>

\* Mutant: only a reply in time closes the transport.
Return_Leaky ==
  /\ fut \notin {Idle, Pending}
  /\ open' = (open /\ fut = None) /\ fut' = Idle /\ left' = <<>> /\ buf' = <<>>
  /\ UNCHANGED <<family, strict>>

\* get_data returns and closes the transport on its way out.
Return ==
  /\ fut \notin {Idle, Pending}
  /\ open' = FALSE /\ fut' = Idle /\ left' = <<>> /\ buf' = <<>>
  /\ UNCHANGED <<family, strict>>

\* _strip_pi18_frame takes the last two bytes for the CRC, whatever they are.
LosesItsEnd(raw) == family \in {"pi18", "eybond-pi18"} /\ ~Contains(raw, "c")

\* What a raw frame decodes to: the payload as it was sent; nothing, for a negative
\* or an absent payload; the fields in the wrong places, when the decoder meets bytes
\* in front of the start, which only the validator skips; anything, when the payload
\* is not intact.
Decoded(raw) ==
  IF Contains(raw, "N") \/ raw \in {<<>>, <<"(">>} THEN "nothing"
  ELSE IF ~Contains(raw, "p") \/ LosesItsEnd(raw) THEN "damaged"
  ELSE IF Head(raw) = "x" THEN "shifted"
  ELSE "intact"

-----------------------------------------------------------------------------
SingleShotTypeOK ==
  /\ family \in Families /\ strict \in BOOLEAN /\ open \in BOOLEAN
  /\ buf \in Seq(Tokens) /\ left \in Seq(Tokens)
  /\ buf \o left \in Replies \cup {<<>>}

\* What the future holds: nothing yet, an error, the agent's or Modbus's answer, or what
\* has arrived up to CR, which on a line in strict mode is a valid frame.
FrameIsReceived ==
  \/ fut \in {Idle, Pending, None}
  \/ family \notin Lines \cup Dongles /\ fut = Payload
  \/ family \in Dongles /\ fut = UpToCR(buf)
  \/ family \in Lines /\ fut = UpToCR(buf) /\ (strict => IsValid(fut))

\* Only the lines have a transport of their own; a query that has ended leaves none open,
\* whether its reply came, was lost or came too late: gateways serve few connections
\* (adapters/voltronic.py's finally).
NoSocketLeft == open => family \in Lines /\ fut \in {Pending, None}
=============================================================================
