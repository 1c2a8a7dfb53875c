------------------------------- MODULE Codec --------------------------------
(***************************************************************************)
(* How the frame task of an ingest session cuts the bytes of its TCP       *)
(* connection into FTL commands: tokio-util's FramedRead around            *)
(* FtlCodec::decode (ingest/src/ftl_codec.rs).  TCP may cut the bytes      *)
(* anywhere; the frame task asks for the next command only when it has     *)
(* written the reply to the last one.                                      *)
(*                                                                         *)
(* A byte string is a sequence of symbols: "CR", "LF", a character that    *)
(* decode looks for (":", ".", the space), a word it looks for, or another *)
(* word.  DISCONNECT is the two symbols "DIS" and "CONNECT", so that it    *)
(* contains CONNECT as the string does.                                    *)
(***************************************************************************)
EXTENDS Naturals, Sequences, SequencesExt, FiniteSetsExt

CONSTANTS Inputs,  \* what encoders send over a connection, sequences of symbols
          Words    \* symbols in Inputs that decode does not look for

Special == {"CR", "LF", "SP", ":", ".", "HMAC", "DIS", "CONNECT", "PING"}
Symbols == Special \cup Words

ASSUME WordsAssumption == Words \cap Special = {}
ASSUME InputsAssumption == \A input \in Inputs : input \in Seq(Symbols)

VARIABLES
  input,   \* what this encoder sends
  got,     \* how much of it has been read from the socket
  buf,     \* FramedRead's buffer
  eof,     \* the socket has reported the end
  pc,      \* where frame.next() is
  items    \* what decode has returned, with the frame it was made from

vars == <<input, got, buf, eof, pc, items>>
-----------------------------------------------------------------------------
(***************************************************************************)
(* decode                                                                  *)
(***************************************************************************)
Terminator == <<"CR", "LF", "CR", "LF">>

\* Positions of w in s.
Positions(w, s) == {i \in 1 .. (Len(s) - Len(w) + 1) : SubSeq(s, i, i + Len(w) - 1) = w}

\* str::contains
Mentions(s, w) == Positions(w, s) # {}

\* str::split: a separator begins another field, the rest belongs to the last.
Divide(fields, x, sep) ==
  IF x = sep THEN Append(fields, <<>>)
  ELSE [fields EXCEPT ![Len(fields)] = Append(@, x)]

Split(s, sep) ==
  LET after[n \in 0 .. Len(s)] ==
        IF n = 0 THEN << <<>> >> ELSE Divide(after[n - 1], s[n], sep)
  IN  after[Len(s)]

\* str::trim
Trim(s) ==
  LET ink == {i \in DOMAIN s : s[i] \notin {"SP", "CR", "LF"}}
  IN  IF ink = {} THEN <<>> ELSE SubSeq(s, Min(ink), Max(ink))

\* Faulty: CONNECT is looked for before DISCONNECT, which contains it.
KindConnectFirst(f) ==
  IF Mentions(f, <<"HMAC">>) THEN "HMAC"
  ELSE IF Mentions(f, <<"CONNECT">>) THEN "Connect"
  ELSE IF Mentions(f, <<"DIS", "CONNECT">>) THEN "Disconnect"
  ELSE IF Mentions(f, <<":">>) THEN "Attribute"
  ELSE IF f = <<".">> THEN "Dot"
  ELSE IF Mentions(f, <<"PING">>) THEN "Ping"
  ELSE "Unsupported"

\* Faulty: a command that is none of these is not an error but no command.
KindOrNone(f) ==
  IF Mentions(f, <<"HMAC">>) THEN "HMAC"
  ELSE IF Mentions(f, <<"DIS", "CONNECT">>) THEN "Disconnect"
  ELSE IF Mentions(f, <<"CONNECT">>) THEN "Connect"
  ELSE IF Mentions(f, <<":">>) THEN "Attribute"
  ELSE IF f = <<".">> THEN "Dot"
  ELSE IF Mentions(f, <<"PING">>) THEN "Ping"
  ELSE "None"

(* The chain of tests; the first that holds decides. *)
Kind(f) ==
  IF Mentions(f, <<"HMAC">>) THEN "HMAC"
  ELSE IF Mentions(f, <<"DIS", "CONNECT">>) THEN "Disconnect"
  ELSE IF Mentions(f, <<"CONNECT">>) THEN "Connect"
  ELSE IF Mentions(f, <<":">>) THEN "Attribute"
  ELSE IF f = <<".">> THEN "Dot"
  ELSE IF Mentions(f, <<"PING">>) THEN "Ping"
  ELSE "Unsupported"

(* commands[1], commands[2] and key.remove(0) panic when there is nothing. *)
ConnectPanics(f) ==
  LET fields == Split(f, "SP") IN Len(fields) < 3 \/ fields[3] = <<>>

(* The HashMap: channel_id and stream_key, or key and value. *)
Data(f) ==
  CASE Kind(f) = "Connect"   -> <<Split(f, "SP")[2], Tail(Split(f, "SP")[3])>>
    [] Kind(f) = "Attribute" -> <<Split(f, ":")[1], Trim(Split(f, ":")[2])>>
    [] OTHER                 -> <<>>

Item(f) ==
  IF Kind(f) = "Connect" /\ ConnectPanics(f)
    THEN [frame |-> f, kind |-> "panic", data |-> <<>>]
    ELSE [frame |-> f, kind |-> Kind(f), data |-> Data(f)]

Kinds == {"HMAC", "Disconnect", "Connect", "Attribute", "Dot", "Ping",
          "Unsupported", "panic"}
-----------------------------------------------------------------------------
TypeOK ==
  /\ input \in Inputs
  /\ got \in 0 .. Len(input)
  /\ buf \in Seq(Symbols) /\ Len(buf) <= got
  /\ eof \in BOOLEAN
  /\ pc \in {"read", "decode", "given", "ended"}
  /\ \A i \in DOMAIN items : items[i].kind \in Kinds

(* Framed::new: nothing has been read, and decode waits for bytes. *)
Init ==
  /\ input \in Inputs
  /\ got = 0 /\ buf = <<>> /\ eof = FALSE
  /\ pc = "read" /\ items = <<>>

(* The socket yields the next n bytes, however many TCP has for it. *)
ReadBytes(n) ==
  /\ pc = "read" /\ got + n <= Len(input)
  /\ got' = got + n
  /\ buf' = buf \o SubSeq(input, got + 1, got + n)
  /\ pc' = "decode"
  /\ UNCHANGED <<input, eof, items>>

(* The encoder has closed the connection, perhaps within a command. *)
ReadEof ==
  /\ pc = "read"
  /\ eof' = TRUE
  /\ pc' = "decode"
  /\ UNCHANGED <<input, got, buf, items>>

\* Faulty: the buffer is emptied, with the beginning of the next command.
DecodeFrameClears ==
  /\ pc = "decode" /\ Positions(Terminator, buf) # {}
  /\ LET end == Min(Positions(Terminator, buf)) IN
       items' = Append(items, Item(SubSeq(buf, 1, end - 1)))
  /\ buf' = <<>>
  /\ pc' = IF Last(items').kind \in {"Unsupported", "panic"} THEN "ended" ELSE "given"
  /\ UNCHANGED <<input, got, eof>>

(***************************************************************************)
(* decode finds a terminator: the bytes before it are the command, and the *)
(* buffer advances past it.  An unsupported command is an error, on which  *)
(* the frame task returns; a panic ends it as well.                        *)
(***************************************************************************)
DecodeFrame ==
  /\ pc = "decode" /\ Positions(Terminator, buf) # {}
  /\ LET end == Min(Positions(Terminator, buf)) IN
       /\ items' = Append(items, Item(SubSeq(buf, 1, end - 1)))
       /\ buf' = SubSeq(buf, end + 4, Len(buf))
  /\ pc' = IF Last(items').kind \in {"Unsupported", "panic"} THEN "ended" ELSE "given"
  /\ UNCHANGED <<input, got, eof>>

(***************************************************************************)
(* decode finds none and returns Ok(None): FramedRead reads on.  At the    *)
(* end of file decode_eof turns it into the end of the frames, or into an  *)
(* error if bytes are left; the frame task returns in both cases.          *)
(***************************************************************************)
DecodeNone ==
  /\ pc = "decode" /\ Positions(Terminator, buf) = {}
  /\ pc' = IF eof THEN "ended" ELSE "read"
  /\ UNCHANGED <<input, got, buf, eof, items>>

\* Faulty: the socket is read before the commands in the buffer are taken.
NextFrameReads ==
  /\ pc = "given"
  /\ pc' = "read"
  /\ UNCHANGED <<input, got, buf, eof, items>>

(* The reply has been written: frame.next() again, the buffer first. *)
NextFrame ==
  /\ pc = "given"
  /\ pc' = "decode"
  /\ UNCHANGED <<input, got, buf, eof, items>>

Next ==
  \/ \E n \in 1 .. Len(input) : ReadBytes(n)
  \/ ReadEof \/ DecodeFrame \/ DecodeNone \/ NextFrame

Spec == Init /\ [][Next]_vars
-----------------------------------------------------------------------------
(***************************************************************************)
(* The reference: an automaton that sees the bytes one by one, knows how   *)
(* many bytes of the terminator it has just seen, and never looks back.    *)
(***************************************************************************)
Scan(state, x) ==
  LET seen == IF x = Terminator[state.seen + 1] THEN state.seen + 1
              ELSE IF x = "CR" THEN 1
              ELSE 0
      line == Append(state.line, x)
  IN  IF seen = 4
        THEN [frames |-> Append(state.frames, SubSeq(line, 1, Len(line) - 4)),
              line |-> <<>>, seen |-> 0]
        ELSE [frames |-> state.frames, line |-> line, seen |-> seen]

\* The automaton's state after each number of bytes.
Scanned(bytes) ==
  LET after[n \in 0 .. Len(bytes)] ==
        IF n = 0 THEN [frames |-> <<>>, line |-> <<>>, seen |-> 0]
        ELSE Scan(after[n - 1], bytes[n])
  IN  after

\* The commands that end within the first n bytes.
FramesOf(bytes, n) == Scanned(bytes)[n].frames

Frames == [i \in DOMAIN items |-> items[i].frame]

(***************************************************************************)
(* The commands do not depend on how TCP cuts the bytes                    *)
(* (ftl_codec.rs:39-42): a terminator split over any two reads is found,   *)
(* one that ends in the beginning of another is not counted twice, and     *)
(* what follows a command in one read is kept for the next.                *)
(***************************************************************************)
FramesDoNotDependOnReads == IsPrefix(Frames, FramesOf(input, got))

(***************************************************************************)
(* The codec waits for the socket only when every command it has received  *)
(* in full has been handed to the session: an encoder that sends commands  *)
(* ahead and then waits for the replies is not left waiting.               *)
(***************************************************************************)
NothingHeldBack == pc = "read" => Frames = FramesOf(input, got)

(* The commands of the FTL handshake, and what they say. *)
Handshake ==
  {[frame |-> <<"HMAC">>, kind |-> "HMAC", data |-> <<>>],
   [frame |-> <<"DIS", "CONNECT">>, kind |-> "Disconnect", data |-> <<>>],
   [frame |-> <<".">>, kind |-> "Dot", data |-> <<>>]}
  \cup {[frame |-> <<"PING", "SP", id>>, kind |-> "Ping", data |-> <<>>] : id \in Words}
  \cup {[frame |-> <<"CONNECT", "SP", id, "SP", mark, key>>, kind |-> "Connect",
         data |-> << <<id>>, <<key>> >>] : id, mark, key \in Words}
  \cup {[frame |-> <<name, ":", "SP", value>>, kind |-> "Attribute",
         data |-> << <<name>>, <<value>> >>] : name, value \in Words}

(***************************************************************************)
(* A command of the handshake is taken for what it is, with the channel,   *)
(* the stream key, the attribute and the value it carries, whatever came   *)
(* before it: the tests for substrings (ftl_codec.rs:43-69) come in an     *)
(* order in which none hides another.                                      *)
(***************************************************************************)
CommandsAreUnderstood ==
  \A i \in DOMAIN items : \A command \in Handshake :
    items[i].frame = command.frame => items[i] = command
=============================================================================
