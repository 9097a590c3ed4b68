------------------------------ MODULE SmtpData ------------------------------
(***************************************************************************)
(* Message bytes on the wire: serializeForDATA on the sending side and the  *)
(* readData loop on the receiving side, one step per ReadSlice.  A byte is  *)
(* "r" (CR), "n" (LF), "." or "x"; the reader's buffer holds Buffer bytes,  *)
(* so a long line arrives in fragments.                                    *)
(***************************************************************************)
EXTENDS Integers, Sequences, SequencesExt

CONSTANTS
  Bytes,           \* {"r", "n", ".", "x"}
  MaxBytes,        \* bound: bytes of a message
  Buffer,          \* size of the bufio.Reader (CommandLineLimit)
  Limits           \* values of MaxMessageSize tried

(* A buffer holds the terminator; bufio has no smaller one than 16 bytes. *)
SmtpDataAssumption ==
  /\ {"r", "n", ".", "x"} \subseteq Bytes /\ Limits \subseteq Nat
  /\ MaxBytes \in Nat /\ Buffer \in Nat /\ Buffer >= 3

CRLF == <<"r", "n">>
Terminator == <<".", "r", "n">>
Pipelined == <<"x", "r", "n">>    \* what the client sends after the message

VARIABLES
  sent,       \* the message the sender serialized, or the raw bytes it sent
  wild,       \* whether it sent them without serializing
  limit,      \* config.MaxMessageSize
  wire,       \* bytes not yet read
  got         \* readData's local variables

vars == <<sent, wild, limit, wire, got>>

-----------------------------------------------------------------------------
(* The sending side. *)

hasValidCRLF(line) == Len(line) >= 2 /\ line[Len(line) - 1] = "r" /\ line[Len(line)] = "n"

(* Every CRLF, lone CR and lone LF becomes CRLF, and the text ends in one.  *)
Normalized(raw) ==
  LET piece(i) == CASE raw[i] = "r" -> CRLF
                    [] raw[i] = "n" -> IF i > 1 /\ raw[i - 1] = "r" THEN <<>> ELSE CRLF
                    [] OTHER -> <<raw[i]>>
      text == FlattenSeq([i \in DOMAIN raw |-> piece(i)])
  IN IF text = <<>> \/ hasValidCRLF(text) THEN text ELSE text \o CRLF

(* Mutant: leading dots are sent as they are. *)
serializeForDATA_NoStuffing(raw) == Normalized(raw) \o Terminator

(* A dot that starts a line is doubled, then the terminator follows. *)
serializeForDATA(raw) ==
  LET text == Normalized(raw)
      lineStart(i) == i = 1 \/ text[i - 1] = "n"
      stuffed == FlattenSeq([i \in DOMAIN text |->
                   IF lineStart(i) /\ text[i] = "." THEN <<".", ".">> ELSE <<text[i]>>])
  IN stuffed \o Terminator

-----------------------------------------------------------------------------
(* The receiving side. *)

(* ReadSlice: up to and with the next LF, or a full buffer without one. *)
ReadSlice ==
  LET ends == {i \in 1..Len(wire) : wire[i] = "n"}
      n == IF \E i \in ends : i <= Buffer THEN CHOOSE i \in ends : \A j \in ends : i <= j
           ELSE Buffer
  IN IF n <= Len(wire) THEN SubSeq(wire, 1, n) ELSE <<>>

isDataTerminator(line) == line = Terminator
WellFramed(line) ==
  hasValidCRLF(line) /\ \A i \in 1..(Len(line) - 2) : line[i] # "r"

Start == [body |-> <<>>, line |-> <<>>, size |-> 0, oversized |-> FALSE, malformed |-> FALSE,
          atLineStart |-> TRUE, done |-> FALSE]

Init ==
  /\ sent \in BoundedSeq(Bytes, MaxBytes) /\ limit \in Limits /\ wild \in BOOLEAN
  /\ wire = (IF wild THEN sent \o CRLF \o Terminator ELSE serializeForDATA(sent)) \o Pipelined
  /\ got = Start

(* What one complete line does to the state: reject, unstuff, count, keep. *)
TakeLine(g, line) ==
  LET text == SubSeq(line, IF line[1] = "." THEN 2 ELSE 1, Len(line) - 2)
      fresh == [g EXCEPT !.line = <<>>, !.atLineStart = TRUE]
  IN IF ~WellFramed(line) THEN [fresh EXCEPT !.malformed = TRUE]
     ELSE IF Len(text) + 2 > limit - g.size THEN [fresh EXCEPT !.oversized = TRUE]
     ELSE [fresh EXCEPT !.size = g.size + Len(text) + 2, !.body = g.body \o text \o CRLF]

readData ==
  LET f == ReadSlice
      complete == f # <<>> /\ Last(f) = "n"
      line == got.line \o f
  IN /\ ~got.done /\ f # <<>>
     /\ wire' = SubSeq(wire, Len(f) + 1, Len(wire))
     /\ got' = IF got.atLineStart /\ complete /\ isDataTerminator(f) THEN [got EXCEPT !.done = TRUE]
               ELSE IF got.oversized \/ got.malformed THEN [got EXCEPT !.atLineStart = complete]
               ELSE IF Len(line) > limit - got.size + 1
                 THEN [got EXCEPT !.oversized = TRUE, !.line = <<>>, !.atLineStart = complete]
               ELSE IF ~complete THEN [got EXCEPT !.line = line, !.atLineStart = FALSE]
               ELSE TakeLine(got, line)
     /\ UNCHANGED <<sent, wild, limit>>

Next == readData
Spec == Init /\ [][Next]_vars

-----------------------------------------------------------------------------

(* What arrives is what was sent, in CRLF form, and the bytes after the     *)
(* terminator are left for the next command; only the size limit refuses    *)
(* it, exactly when the unstuffed text exceeds it and however the text was  *)
(* cut into fragments.                                                     *)
RoundTrip ==
  got.done /\ ~wild =>
    /\ wire = Pipelined /\ ~got.malformed
    /\ got.oversized <=> Len(Normalized(sent)) > limit
    /\ ~got.oversized => got.body = Normalized(sent)

(* Whatever bytes arrive, an accepted body is within the limit and has      *)
(* only whole CRLF lines.                                                  *)
AcceptedBodyIsClean ==
  got.done /\ ~got.oversized /\ ~got.malformed =>
    /\ Len(got.body) = got.size /\ got.size <= limit
    /\ Normalized(got.body) = got.body

(* The dot-stuffed form carries any text, and readData keeps its bounds. *)
DataIsFaithful == RoundTrip /\ AcceptedBodyIsClean
=============================================================================
