----------------------------- MODULE Transport -----------------------------
(***************************************************************************)
(* How the language server finds messages in its input                     *)
(* (LanguageServer/JsonRpc.cpp: Transport::read and takeMessage).          *)
(*                                                                         *)
(* The client sends messages, each a header and a body, and some whose     *)
(* header is broken.  They arrive in pieces of any size, cut anywhere.     *)
(* The length of the body of a message with a broken header is unknown,    *)
(* so the server searches for the next Content-Length field; if the end of *)
(* a header is too long in coming, for the next blank line.                *)
(*                                                                         *)
(* The input is a sequence of characters: "C" and "L" stand for the field  *)
(* name Content-Length and its colon, "r" and "n" for the carriage return  *)
(* and the newline, digits for themselves and "x" for all else.            *)
(***************************************************************************)
EXTENDS Naturals, SequencesExt

CONSTANTS
    Parts,              \* what the client may send: [text |-> , result |-> ]
    MaxParts,           \* bound: how many of them it sends
    MaximumHeaderSize,  \* kMaximumHeaderSize
    MaximumMessageSize, \* kMaximumMessageSize
    Invalid             \* Framing::Invalid

ASSUME LimitsAssumption == MaxParts \in Nat /\ MaximumHeaderSize \in Nat /\ MaximumMessageSize \in Nat

VARIABLES
    sent,               \* the parts the client sends
    input,              \* the characters of them that are not read yet
    buffer,             \* buffer_
    resynchronizing,    \* resynchronizing_
    skippingHeader,     \* skippingHeader_
    reading,            \* read waits for input; else takeMessage is executed
    received            \* what read returned: the contents of messages, or Invalid

flags == <<resynchronizing, skippingHeader>>
transportVars == <<sent, input, buffer, flags, reading, received>>

Field == <<"C", "L">>
LineEnd == <<"r", "n">>
BlankLine == LineEnd \o LineEnd
Digit == [c \in {"0", "1", "2"} |-> CASE c = "0" -> 0 [] c = "1" -> 1 [] c = "2" -> 2]
Characters == {"C", "L", "r", "n", "x"} \cup DOMAIN Digit

\* The first position of pattern in text, 0 if there is none.
Find(text, pattern) ==
    LET found == {i \in 1..(Len(text) - Len(pattern) + 1) : SubSeq(text, i, i + Len(pattern) - 1) = pattern}
    IN  IF found = {} THEN 0 ELSE Min(found)
From(text, i) == SubSeq(text, i, Len(text))
LastOf(text, n) == IF Len(text) > n THEN From(text, Len(text) - n + 1) ELSE text

-----------------------------------------------------------------------------
(***************************************************************************)
(* The header a text begins with                                           *)
(***************************************************************************)
HeaderEnd(text) == Find(text, BlankLine)
BodyStart(text) == HeaderEnd(text) + 4

\* The positions at which a line of the header begins with Content-Length, and its value.
LineStarts(text) == {i \in 1..(HeaderEnd(text) - 1) : i = 1 \/ (i > 2 /\ SubSeq(text, i - 2, i - 1) = LineEnd)}
Fields(text) == {i \in LineStarts(text) : SubSeq(text, i, i + 1) = Field}
Value(text, i) == LET rest == From(text, i + 2) IN SubSeq(rest, 1, Find(rest, LineEnd) - 1)
Number(digits) == FoldLeft(LAMBDA value, c : value * 10 + Digit[c], 0, digits)

\* Exactly one field, whose value is a number that is not too large.
HasLength(text) ==
    /\ Cardinality(Fields(text)) = 1
    /\ \A i \in Fields(text) :
           LET digits == Value(text, i) IN
           digits # <<>> /\ ToSet(digits) \subseteq DOMAIN Digit /\ Number(digits) <= MaximumMessageSize
Length(text) == Number(Value(text, CHOOSE i \in Fields(text) : TRUE))

(***************************************************************************)
(* What the client sends                                                   *)
(***************************************************************************)

\* What can be the beginning of a part to the server: the part, or what follows the first
\* field name in it, to which the server skips after a broken header.
Heads(text) == {text} \cup {From(text, i) : i \in {Find(text, Field)} \ {0}}

\* A message states the length of its body, and its header is not too long.  No header says
\* Content-Length where no field begins.
IsMessage(part) ==
    /\ Find(part.text, Field) # 0 /\ part.result # Invalid
    /\ \A head \in Heads(part.text) :
           /\ HeaderEnd(head) # 0 /\ HeaderEnd(head) + 2 <= MaximumHeaderSize
           /\ HasLength(head) /\ Length(head) = Len(head) + 1 - BodyStart(head)
           /\ part.result = From(head, BodyStart(head))

\* A broken one states none.  Its body does not say Content-Length, and a header that is too
\* long, whose body would be taken for the next header, has none.
IsBroken(part) ==
    /\ part.result = Invalid
    /\ \A head \in Heads(part.text) :
           /\ HeaderEnd(head) # 0 /\ ~HasLength(head)
           /\ Find(From(head, BodyStart(head)), Field) = 0
           /\ HeaderEnd(head) + 2 <= MaximumHeaderSize \/ Len(head) + 1 = BodyStart(head)

ASSUME PartsAssumption == \A part \in Parts :
    /\ part.text \in Seq(Characters) /\ part.text # <<>> /\ Head(part.text) # "L"
    /\ IsMessage(part) \/ IsBroken(part)

\* The parts from each one on.
Remaining(parts) ==
    LET from[i \in 1..(Len(parts) + 1)] == IF i > Len(parts) THEN <<>> ELSE parts[i].text \o from[i + 1]
    IN  from

-----------------------------------------------------------------------------
(***************************************************************************)
(* takeMessage                                                             *)
(***************************************************************************)
Taking == ~reading
Synchronized == Taking /\ ~resynchronizing /\ ~skippingHeader

NothingKept(n) == <<>>
\* The end of the buffer may be the beginning of what is searched for.
Kept(n) == LastOf(buffer, n)

\* After a broken header: skip to the next Content-Length.
Resynchronize ==
    LET next == Find(buffer, Field) IN
    /\ Taking /\ resynchronizing
    /\ IF next = 0
       THEN /\ buffer' = Kept(Len(Field) - 1)
            /\ reading' = TRUE
            /\ UNCHANGED flags
       ELSE /\ buffer' = From(buffer, next)
            /\ resynchronizing' = FALSE
            /\ UNCHANGED <<skippingHeader, reading>>
    /\ UNCHANGED <<sent, input, received>>

\* After a header that is too long: skip to the next blank line.
SkipHeader ==
    LET end == Find(buffer, BlankLine) IN
    /\ Taking /\ ~resynchronizing /\ skippingHeader
    /\ IF end = 0
       THEN /\ buffer' = Kept(3)
            /\ reading' = TRUE
            /\ UNCHANGED flags
       ELSE /\ buffer' = From(buffer, end + 4)
            /\ skippingHeader' = FALSE
            /\ UNCHANGED <<resynchronizing, reading>>
    /\ UNCHANGED <<sent, input, received>>

HeaderIncomplete ==
    /\ Synchronized /\ HeaderEnd(buffer) = 0
    /\ Len(buffer) <= MaximumHeaderSize
    /\ reading' = TRUE
    /\ UNCHANGED <<sent, input, buffer, flags, received>>

\* What has arrived of the header is refused.
HeaderTooLong ==
    /\ Synchronized /\ HeaderEnd(buffer) = 0
    /\ Len(buffer) > MaximumHeaderSize
    /\ received' = Append(received, Invalid)
    /\ buffer' = LastOf(buffer, 3)
    /\ skippingHeader' = TRUE
    /\ UNCHANGED <<sent, input, resynchronizing, reading>>

BodyNotSkipped ==
    /\ Synchronized /\ HeaderEnd(buffer) # 0 /\ ~HasLength(buffer)
    /\ received' = Append(received, Invalid)
    /\ buffer' = From(buffer, BodyStart(buffer))
    /\ UNCHANGED <<sent, input, flags, reading>>

InvalidHeader ==
    /\ Synchronized /\ HeaderEnd(buffer) # 0 /\ ~HasLength(buffer)
    /\ received' = Append(received, Invalid)
    /\ buffer' = From(buffer, BodyStart(buffer))
    /\ resynchronizing' = TRUE
    /\ UNCHANGED <<sent, input, skippingHeader, reading>>

BodyArrived == Len(buffer) + 1 >= BodyStart(buffer) + Length(buffer)

BodyIncomplete ==
    /\ Synchronized /\ HeaderEnd(buffer) # 0 /\ HasLength(buffer) /\ ~BodyArrived
    /\ reading' = TRUE
    /\ UNCHANGED <<sent, input, buffer, flags, received>>

TakeMessage ==
    /\ Synchronized /\ HeaderEnd(buffer) # 0 /\ HasLength(buffer) /\ BodyArrived
    /\ received' = Append(received, SubSeq(buffer, BodyStart(buffer), BodyStart(buffer) + Length(buffer) - 1))
    /\ buffer' = From(buffer, BodyStart(buffer) + Length(buffer))
    /\ UNCHANGED <<sent, input, flags, reading>>

-----------------------------------------------------------------------------
(***************************************************************************)
(* read                                                                    *)
(***************************************************************************)

\* The system call reads the next n characters; takeMessage is tried again.
ReadInput(n) ==
    /\ reading /\ n <= Len(input)
    /\ buffer' = buffer \o SubSeq(input, 1, n)
    /\ input' = From(input, n + 1)
    /\ reading' = FALSE
    /\ UNCHANGED <<sent, flags, received>>

\* No input arrives in time: the server checks programs and calls read again.
Timeout ==
    /\ reading
    /\ reading' = FALSE
    /\ UNCHANGED <<sent, input, buffer, flags, received>>

TransportInit ==
    /\ \E n \in 0..MaxParts : sent \in [1..n -> Parts]
    /\ input = Remaining(sent)[1]
    /\ buffer = <<>>
    /\ resynchronizing = FALSE
    /\ skippingHeader = FALSE
    /\ reading = FALSE
    /\ received = <<>>

takeMessage ==
    \/ Resynchronize
    \/ SkipHeader
    \/ HeaderIncomplete
    \/ HeaderTooLong
    \/ InvalidHeader
    \/ BodyIncomplete
    \/ TakeMessage

Arrive == \E n \in 1..Len(input) : ReadInput(n)

TransportNext == takeMessage \/ Arrive \/ Timeout

TransportSpec == TransportInit /\ [][TransportNext]_transportVars

\* The server keeps reading, and what the client sent arrives in the end, however often the
\* server stops waiting for it before.
TransportFairness == WF_transportVars(takeMessage) /\ SF_transportVars(Arrive)

-----------------------------------------------------------------------------
\* However the input is cut, messages are received in order and intact, whatever is in
\* their bodies, and after broken ones: neither the body of a broken message nor its header
\* is taken for a message, and nothing is reported that is not broken.  What is received is the
\* result of different parts, in their order, and no message before any of them is missing.
ReceivedAsSent ==
    \E part \in [1..Len(received) -> 1..Len(sent)] :
        /\ \A k, l \in 1..Len(received) : k < l => part[k] < part[l]
        /\ \A k \in 1..Len(received) : received[k] = sent[part[k]].result
        /\ \A k \in 1..Len(received) : \A i \in 1..part[k] :
               sent[i].result # Invalid => \E l \in 1..Len(received) : part[l] = i

Valid(results) == SelectSeq(results, LAMBDA result : result # Invalid)
Expected == Valid([i \in 1..Len(sent) |-> sent[i].result])

\* Every message arrives in the end, also after broken ones.
EventuallyReceived == <>(Valid(received) = Expected)
=============================================================================
