------------------------------- MODULE Parser -------------------------------
(***************************************************************************)
(* Parsing (message/parse.rs): one pass over the fields of a message,      *)
(* building its tape.  A parser is a record; err says that it has refused  *)
(* the message, done that it has read CheckSum.                            *)
(***************************************************************************)
EXTENDS Tape

NewParser(framing) ==
  [framing |-> framing,  \* "Strict" or "Fragment"
   msg |-> [NewMessage EXCEPT !.tape = <<>>, !.body_start = 0, !.trailer_start = 0],
   stack |-> <<>>, region |-> "Header", ordinal |-> 0, pending |-> <<>>,
   done |-> FALSE, err |-> FALSE]

Refuse(p) == [p EXCEPT !.err = TRUE]

Then(p, Step(_)) == IF p.err THEN p ELSE Step(p)

TapeLen(p) == Len(p.msg.tape)

PushEntry(p, e) == [p EXCEPT !.msg.tape = Append(@, e)]

Top(p) == p.stack[Len(p.stack)]

-----------------------------------------------------------------------------
\* Groups

CloseInstance(p) ==
  LET i == Top(p).instance
  IN  IF i = None THEN p ELSE [p EXCEPT !.msg.tape[i].len = TapeLen(p) + 1 - i]

CloseGroup(p) ==
  LET frame == Top(p)
      p1 == [CloseInstance(p) EXCEPT
               !.stack = Front(@),
               !.msg.tape[frame.entry].len = TapeLen(p) + 1 - frame.entry,
               !.msg.tape[frame.entry].off = frame.count]
  IN  IF frame.count # frame.declared THEN Refuse(p1) ELSE p1

StartInstance(p) ==
  LET p1 == CloseInstance(p)
      frame == Top(p1)
      opened == [frame EXCEPT !.count = @ + 1, !.instance = TapeLen(p1) + 1]
  IN  IF frame.count = frame.declared THEN Refuse(p1)
      ELSE PushEntry([p1 EXCEPT !.stack = Append(Front(@), opened)],
                     InstanceEntry(frame.depth + 1))

\* The open groups a field does not belong to end; a delimiter starts an
\* instance of the one it does.
RECURSIVE CloseOthers(_, _)
CloseOthers(p, tag) ==
  IF p.err \/ p.stack = <<>> THEN p
  ELSE IF tag = Delimiter(Top(p).group) THEN StartInstance(p)
  ELSE IF tag \in Members(Top(p).group)
       THEN IF Top(p).instance = None THEN Refuse(p) ELSE p
  ELSE CloseOthers(CloseGroup(p), tag)

RECURSIVE CloseAll(_)
CloseAll(p) == IF p.err \/ p.stack = <<>> THEN p ELSE CloseAll(CloseGroup(p))

-----------------------------------------------------------------------------
\* Regions

EnterBody(p) ==
  LET tape == PushGap(p.msg.tape)
  IN  [p EXCEPT !.region = "Body", !.msg.tape = tape, !.msg.body_start = Len(tape) + 1]

EnterTrailer(p) ==
  [p EXCEPT !.region = "Trailer", !.msg.trailer_start = TapeLen(p) + 1]

EnterRegion(p, tag) ==
  CASE p.region = "Header" ->
         IF IsHeader(tag) THEN p
         ELSE IF IsTrailer(tag) THEN EnterTrailer(EnterBody(p))
         ELSE EnterBody(p)
    [] p.region = "Body" ->
         IF IsHeader(tag) THEN Refuse(p)
         ELSE IF IsTrailer(tag) THEN EnterTrailer(p)
         ELSE p
    [] p.region = "Trailer" -> IF IsTrailer(tag) THEN p ELSE Refuse(p)

FinishRegions(p) ==
  CASE p.region = "Header"  -> EnterTrailer(EnterBody(p))
    [] p.region = "Body"    -> EnterTrailer(p)
    [] p.region = "Trailer" -> p

\* A header field of a fragment that comes after the body has begun.
PushLateHeader(p, e) ==
  LET gap == HeaderGapAt(p.msg)
      room == Span(p.msg.tape[gap])
      tape == [p.msg.tape EXCEPT ![gap] = e]
  IN  IF gap = None
      THEN [p EXCEPT !.msg.tape = InsertAt(@, p.msg.body_start, e),
                     !.msg.body_start = @ + 1,
                     !.msg.trailer_start = IF p.region = "Trailer" THEN @ + 1 ELSE @]
      ELSE [p EXCEPT !.msg.tape =
              IF room > 1 THEN [tape EXCEPT ![gap + 1] = Gap(room - 1)] ELSE tape]

-----------------------------------------------------------------------------
\* Fields

\* Put a field on the tape at a depth, opening a group if it is a NumInGroup.
Place(p, e, depth) ==
  LET nested == p.stack # <<>>
      group == IF e.kind # "Field" THEN None
               ELSE IF nested THEN NestedGroup(Top(p).group, e.tag)
               ELSE TopLevelGroup(p.region = "Header", e.tag)
      frame == [group |-> group, entry |-> TapeLen(p) + 1, instance |-> None,
                declared |-> e.val, count |-> 0, depth |-> depth]
      opened == PushEntry(p, GroupEntry(e.tag, depth))
  IN  IF group = None THEN PushEntry(p, [e EXCEPT !.depth = depth])
      ELSE IF e.val = 0 THEN opened
      ELSE [opened EXCEPT !.stack = Append(@, frame)]

Push(parser, e) ==
  Then(CloseOthers(parser, e.tag), LAMBDA p :
    IF p.stack # <<>> THEN Place(p, e, Top(p).depth + 1)
    ELSE IF p.framing = "Fragment" /\ p.region # "Header" /\ IsHeader(e.tag)
    THEN IF e.kind = "Field" /\ TopLevelGroup(TRUE, e.tag) # None THEN Refuse(p)
         ELSE PushLateHeader(p, e)
    ELSE Then(EnterRegion(p, e.tag), LAMBDA p1 : Place(p1, e, 0)))

\* BeginString, BodyLength and MsgType first, and only there; CheckSum is last.
\* Whether their values are right is a matter of bytes.
FramingRules(p, tag) ==
  LET first == <<8, 9, 35>>
      n == p.ordinal + 1
      misplaced == IF n \in DOMAIN first THEN tag # first[n]
                   ELSE tag \in ToSet(first)
  IN  [p EXCEPT !.ordinal = n, !.done = tag = 10,
                !.err = p.framing = "Strict" /\ misplaced]

\* What kind of entry a field is: the data field the last one announced, a
\* Length, or neither.
KindOf(p, tag) ==
  IF p.pending # <<>> THEN "Data" ELSE IF IsLength(tag) THEN "DataLen" ELSE "Field"

\* Read one field.
ReadField(p, field) ==
  LET kind == KindOf(p, field.tag)
      announced == p.pending = <<>> \/ p.pending = <<field>>
      next == IF kind = "DataLen"
              THEN <<[tag |-> DataOf(field.tag), val |-> field.val]>> ELSE <<>>
  IN  IF ~announced THEN Refuse(p)
      ELSE Then(FramingRules([p EXCEPT !.pending = next,
                                       !.msg.wire = Append(@, field)], field.tag),
                LAMBDA p1 : Push(p1, Entry(kind, field.tag, field.val)))

\* A fragment without BeginString is given one.
SupplyBeginString(p) ==
  IF \E i \in DOMAIN p.msg.tape : p.msg.tape[i].tag = 8 /\ IsField(p.msg.tape[i])
  THEN p
  ELSE [p EXCEPT !.msg.tape = <<Entry("Field", 8, 0)>> \o @,
                 !.msg.body_start = @ + 1, !.msg.trailer_start = @ + 1]

HasMsgType(p) ==
  \E i \in 1 .. p.msg.body_start - 1 : p.msg.tape[i].tag = 35 /\ IsField(p.msg.tape[i])

\* The end of the message.
Finish(parser) ==
  IF parser.pending # <<>> THEN Refuse(parser)
  ELSE Then(CloseAll(parser), LAMBDA p :
    LET p1 == FinishRegions(p)
        p2 == IF p1.framing = "Strict" THEN p1 ELSE SupplyBeginString(p1)
    IN  IF p1.framing = "Strict" /\ ~p1.done THEN Refuse(p1)
        ELSE IF ~HasMsgType(p2) THEN Refuse(p2)
        ELSE [p2 EXCEPT !.msg.clean = p2.framing = "Strict"])

\* Message::parse: nothing may follow CheckSum.
Parse(fields) ==
  LET read == FoldLeft(LAMBDA p, field :
                         IF p.done THEN Refuse(p)
                         ELSE Then(p, LAMBDA p1 : ReadField(p1, field)),
                       NewParser("Strict"), fields)
  IN  Then(read, Finish)
=============================================================================
