------------------------------- MODULE Message -------------------------------
(***************************************************************************)
(* A message read field by field, or made, and then edited through views,  *)
(* one made from another (message/edit.rs).                                *)
(*                                                                         *)
(* Edits name tags that belong to the block they are made in, as the typed *)
(* interface requires, and are made to messages in which no block repeats  *)
(* a tag, as the views assume.  A position is used for one edit.           *)
(***************************************************************************)
EXTENDS Edit

CONSTANTS
  Starts,      \* the fields of messages that have just been parsed
  Source,      \* the fields of the message that copy takes from
  ReadTags,    \* the tags of the fields that are read
  MaxRead,     \* bound: the fields of a message that is read, by framing
  MaxCount,    \* bound: the instances that a NumInGroup declares
  MaxEdits,    \* bound: the edits of a message
  ReadEdits    \* bound: the edits of a message that was read here

VARIABLES
  phase,       \* "reading", "refused" or "held"
  parser,      \* while reading
  msg,         \* while held
  views,       \* the views in use, each made from the one before
  budget       \* the edits left

vars == <<phase, parser, msg, views, budget>>

NewVal == 99   \* the value that every edit gives

DictTags == UNION ({ToSet(Dict.header), ToSet(Dict.body), ToSet(Dict.trailer)}
                \cup {Members(g) : g \in DOMAIN Dict.members})

SourceMsg == Parse(Source).msg

Init ==
  /\ views = <<>>
  /\ \/ \E framing \in {"Strict", "Fragment"} :
          phase = "reading" /\ parser = NewParser(framing) /\ msg = NewMessage
          /\ budget = ReadEdits
     \/ \E m \in {NewMessage} \cup {Parse(fields).msg : fields \in Starts} :
          phase = "held" /\ parser = NewParser("Strict") /\ msg = m
          /\ budget = MaxEdits

-----------------------------------------------------------------------------
\* Reading

\* The values a field may have: a count, a size that is right for a data field
\* that comes next or is not, the field's own number.
Values(tag) ==
  LET n == Len(parser.msg.wire) + 1
  IN  IF IsGroup(tag) THEN 0 .. MaxCount
      ELSE IF IsLength(tag) THEN {0, n + 1}
      ELSE IF tag \in Framing THEN {0}
      ELSE {n}

\* A field is read.  A data field is announced by its Length here.
Read ==
  /\ phase = "reading"
  /\ ~parser.done
  /\ Len(parser.msg.wire) < MaxRead[parser.framing]
  /\ \E tag \in ReadTags : \E val \in Values(tag) :
       /\ IsData(tag) => parser.pending # <<>>
       /\ \E p \in {ReadField(parser, [tag |-> tag, val |-> val])} :
            IF p.err THEN phase' = "refused" /\ parser' = NewParser("Strict")
            ELSE phase' = "reading" /\ parser' = p
  /\ UNCHANGED <<msg, views, budget>>

FinishReading ==
  /\ phase = "reading"
  /\ \E p \in {Finish(parser)} :
       IF p.err THEN phase' = "refused" /\ UNCHANGED msg
       ELSE phase' = "held" /\ msg' = p.msg
  /\ parser' = NewParser("Strict")
  /\ UNCHANGED <<views, budget>>

-----------------------------------------------------------------------------
\* Views

Blocks(m) ==
  {RegionRange(m, r) : r \in Regions}
  \cup {Inside(m, i) : i \in {i \in DOMAIN m.tape : m.tape[i].kind = "Instance"}}

NoRepeats(m) == \A block \in Blocks(m) : CheckUnique(Tags(m, block))

TopView == views[Len(views)]

OnBlock == views # <<>> /\ TopView.kind \in {"Block", "Instance"}

OnGroup == views # <<>> /\ TopView.kind = "Group"

OnCursor == views # <<>> /\ TopView.kind = "Cursor"

Editable == phase = "held" /\ budget > 0

\* An edit that leaves the message m and the views vs.
Edited(m, vs) ==
  /\ msg' = m
  /\ views' = vs
  /\ budget' = budget - 1
  /\ UNCHANGED <<phase, parser>>

\* A step that edits nothing.
Moved(m, vs) == msg' = m /\ views' = vs /\ UNCHANGED <<phase, parser, budget>>

BlockView(kind, place) == [kind |-> kind, place |-> place]

\* The fields of a block, by the dictionary.
Within(place) ==
  IF place.inst # None THEN Members(place.def)
  ELSE CASE place.region = "Header"  -> ToSet(Dict.header)
         [] place.region = "Body"    -> ToSet(Dict.body)
         [] place.region = "Trailer" -> ToSet(Dict.trailer)

\* header_mut, body_mut.
OpenBlock(region) ==
  /\ Editable /\ views = <<>> /\ NoRepeats(msg)
  /\ Moved(msg, <<BlockView("Block", RegionPlace(region))>>)

\* group_mut.
OpenGroup(tag) ==
  /\ OnBlock /\ Editable
  /\ tag \in Within(TopView.place)
  /\ IsGroupTag(TopView.place, tag) # None
  /\ Moved(msg, Append(views, [kind |-> "Group",
                               view |-> GroupView(msg, TopView.place, tag)]))

\* The end of a view; an instance's view looks after the instance.
Close ==
  /\ views # <<>>
  /\ Moved(IF TopView.kind = "Instance" THEN Prune(msg, TopView.place) ELSE msg,
           Front(views))

-----------------------------------------------------------------------------
\* Edits of a block

SetField(tag) ==
  /\ OnBlock /\ Editable
  /\ tag \in Within(TopView.place)
  /\ ~Derived(TopView.place, tag)
  /\ Edited(Put(msg, TopView.place, tag, NewVal), views)

RemoveField(tag) ==
  /\ OnBlock /\ Editable
  /\ tag \in Within(TopView.place) \ Framing
  /\ FindHere(msg, TopView.place, tag) # None
  /\ Edited(RemoveTag(msg, TopView.place, tag), views)

CopyField(tag) ==
  /\ OnBlock /\ Editable
  /\ tag \in Within(TopView.place) \ Framing
  /\ \E block \in Blocks(SourceMsg) :
       /\ Find(SourceMsg, block, tag) # None
       /\ Edited(Copy(msg, TopView.place, SourceMsg, block, tag), views)

CopyFieldValue(from, to) ==
  /\ OnBlock /\ Editable
  /\ from # to
  /\ to \in Within(TopView.place)
  /\ ~Derived(TopView.place, to) /\ ~IsData(to)
  /\ LET i == FindHere(msg, TopView.place, from)
     IN  i # None /\ msg.tape[i].kind = "Field"
  /\ Edited(CopyValue(msg, TopView.place, from, to), views)

-----------------------------------------------------------------------------
\* Edits of a group

\* push, insert: the new instance's view is on top, the group's knows its entry.
AddInstance(n) ==
  /\ OnGroup /\ Editable
  /\ n <= GroupLen(msg, TopView.view)
  /\ \E r \in {InsertInstance(msg, TopView.view, n)} :
       Edited(r.msg, Front(views) \o <<[TopView EXCEPT !.view = r.view],
                                       BlockView("Instance", r.place)>>)

\* get_mut.
GetInstance(n) ==
  /\ OnGroup /\ Editable
  /\ n < GroupLen(msg, TopView.view)
  /\ LET g == GroupAt(msg, TopView.view)
         q == InstanceAt(msg, TopView.view, n)
     IN  Moved(msg, Append(views, BlockView("Instance", InstancePlace(TopView.view, g, q))))

DropInstance(n) ==
  /\ OnGroup /\ Editable
  /\ n < GroupLen(msg, TopView.view)
  /\ Edited(RemoveInstance(msg, TopView.view, n), views)

RetainInstances(keep) ==
  /\ OnGroup /\ Editable
  /\ keep # 0 .. GroupLen(msg, TopView.view) - 1
  /\ keep \subseteq 0 .. GroupLen(msg, TopView.view) - 1
  /\ Edited(Retain(msg, TopView.view, keep),
            IF keep = {} THEN Append(Front(views), [TopView EXCEPT !.view.idx = None])
            ELSE views)

Clear ==
  /\ OnGroup /\ Editable
  /\ GroupAt(msg, TopView.view) # None
  /\ Edited(ClearGroup(msg, TopView.view),
            Append(Front(views), [TopView EXCEPT !.view.idx = None]))

-----------------------------------------------------------------------------
\* Positions

\* cursor_mut, with the path of some entry.
OpenCursor ==
  /\ Editable /\ views = <<>> /\ NoRepeats(msg)
  /\ \E i \in DOMAIN msg.tape :
       /\ msg.tape[i].kind \notin {"Gap", "DataLen"}
       /\ Moved(msg, <<[kind |-> "Cursor", idx |-> Resolve(msg, PathOf(msg, i))]>>)

Position == TopView.idx

CursorBlock ==
  /\ OnCursor
  /\ Moved(msg, <<BlockView("Block", PlaceOf(msg, Position))>>)

CursorSet ==
  /\ OnCursor
  /\ IsField(msg.tape[Position])
  /\ ~Derived(PlaceOf(msg, Position), msg.tape[Position].tag)
  /\ Edited(Put(msg, PlaceOf(msg, Position), msg.tape[Position].tag, NewVal), <<>>)

RemoveHere ==
  /\ OnCursor
  /\ msg.tape[Position].tag \notin Framing
  /\ Edited(CursorRemove(msg, Position), <<>>)

PushInstance ==
  /\ OnCursor
  /\ msg.tape[Position].kind = "Group"
  /\ LET view == GroupView(msg, PlaceOf(msg, Position), msg.tape[Position].tag)
     IN  \E r \in {InsertInstance(msg, view, GroupLen(msg, view))} :
           Edited(r.msg, <<BlockView("Instance", r.place)>>)

-----------------------------------------------------------------------------
\* The whole message

SetValues(tag) ==
  /\ Editable /\ views = <<>>
  /\ Edited(ValuesMut(msg, tag, NewVal), <<>>)

Stamp == Editable /\ views = <<>> /\ Edited(StampSendingTime(msg, NewVal), <<>>)

Reorders == Editable /\ views = <<>> /\ NoRepeats(msg) /\ Edited(Normalize(msg), <<>>)

Reset == Editable /\ views = <<>> /\ Edited(NewMessage, <<>>)

EditStep ==
  \/ \E tag \in DictTags : SetField(tag) \/ RemoveField(tag) \/ CopyField(tag)
  \/ \E from, to \in DictTags : CopyFieldValue(from, to)
  \/ \E n \in 0 .. MaxCount + MaxEdits : AddInstance(n) \/ DropInstance(n)
  \/ \E keep \in SUBSET (0 .. MaxCount + 1) : RetainInstances(keep)
  \/ Clear
  \/ CursorSet \/ RemoveHere \/ PushInstance
  \/ \E tag \in DictTags \ Framing : SetValues(tag)
  \/ Stamp \/ Reorders \/ Reset

ViewStep ==
  \/ \E region \in {"Header", "Body"} : OpenBlock(region)
  \/ \E tag \in DictTags : OpenGroup(tag)
  \/ \E n \in 0 .. MaxCount + MaxEdits : GetInstance(n)
  \/ OpenCursor \/ CursorBlock \/ Close

Next == Read \/ FinishReading \/ EditStep \/ ViewStep

Spec == Init /\ [][Next]_vars

-----------------------------------------------------------------------------
\* The document

\* F of the value of an expression.
Of(value, F(_)) == CHOOSE y \in {F(x) : x \in {value}} : TRUE

RECURSIVE Nodes(_, _)
Nodes(m, block) ==
  LET instances(i) ==
        IF m.tape[i].kind # "Group" THEN <<>>
        ELSE Of(Children(m, Inside(m, i)), LAMBDA qs :
               [n \in DOMAIN qs |-> Nodes(m, Inside(m, qs[n]))])
      node(i) == [tag |-> m.tape[i].tag, val |-> m.tape[i].val,
                  group |-> m.tape[i].kind = "Group", insts |-> instances(i)]
      seen == SelectSeq(Children(m, block), LAMBDA i :
                m.tape[i].kind \notin {"Gap", "DataLen"})
  IN  Of(seen, LAMBDA is : [k \in DOMAIN is |-> node(is[k])])

DocOf(m) == [r \in Regions |-> Nodes(m, RegionRange(m, r))]

\* Where a view is, found from the indices it holds.
AddressOf(v) ==
  LET here(kind, path, tag) ==
        [kind |-> kind, region |-> path.region, steps |-> path.steps, tag |-> tag]
      block(kind, place, tag) ==
        IF place.inst = None
        THEN here(kind, [region |-> place.region, steps |-> <<>>], tag)
        ELSE here(kind, PathOf(msg, place.inst), tag)
  IN  CASE v.kind = "Group"  -> block("Group", v.view.parent, v.view.tag)
        [] v.kind = "Cursor" -> here("Cursor", PathOf(msg, v.idx), msg.tape[v.idx].tag)
        [] OTHER             -> block(v.kind, v.place, 0)

Doc == INSTANCE Document WITH
  doc <- IF phase = "held" THEN DocOf(msg) ELSE [r \in Regions |-> <<>>],
  at <- [k \in DOMAIN views |-> AddressOf(views[k])],
  AllTags <- DictTags, Blank <- DocOf(NewMessage)

\* Every edit through a view changes one thing in the block that the view was made
\* for, or empties it out as it closes, and nothing anywhere else; and every view
\* that the edited one was made from is still where it was, although both hold
\* indices into a tape that the edit moves (Place, GroupMut::group, insert,
\* remove_at, retain, prune).
EditsDocument == Doc!Spec

-----------------------------------------------------------------------------
\* The walk over a block ends where the block does.
Lands(m, block) ==
  LET children == Children(m, block)
  IN  IF children = <<>> THEN block.lo = block.hi
      ELSE NextSibling(m, Last(children)) = block.hi

WellFormed(m) ==
  LET e(i) == m.tape[i]
      kinds(block) == {e(i).kind : i \in ToSet(Children(m, block))}
      depths(block) == {e(i).depth : i \in ToSet(Children(m, block))}
  IN  /\ \A r \in Regions :
           /\ Lands(m, RegionRange(m, r))
           /\ "Instance" \notin kinds(RegionRange(m, r))
           /\ depths(RegionRange(m, r)) \subseteq {0}
      /\ \A i \in DOMAIN m.tape :
           /\ e(i).kind = "Group" =>
                /\ Lands(m, Inside(m, i))
                /\ kinds(Inside(m, i)) \subseteq {"Instance"}
                /\ depths(Inside(m, i)) \subseteq {e(i).depth + 1}
                /\ e(i).off = Len(Children(m, Inside(m, i)))
           /\ e(i).kind = "Instance" =>
                /\ Lands(m, Inside(m, i))
                /\ kinds(Inside(m, i)) \subseteq {"Field", "DataLen", "Data", "Group"}
                /\ depths(Inside(m, i)) \subseteq {e(i).depth}
           /\ e(i).kind = "DataLen" =>
                /\ i + 1 \in DOMAIN m.tape
                /\ e(i + 1) = [e(i) EXCEPT !.kind = "Data", !.tag = DataOf(@)]
           /\ e(i).kind = "Data" => i > 1 /\ e(i - 1).kind = "DataLen"
           /\ e(i).kind = "Gap" /\ e(i).len > 0 => NextSibling(m, i) = m.body_start

\* A lookup finds the same whatever the hint.
HintsHarmless(m) ==
  \A block \in Blocks(m) : \A hint \in DOMAIN m.tape :
    LET depth == IF block.lo > 1 /\ m.tape[block.lo - 1].kind = "Instance"
                 THEN m.tape[block.lo - 1].depth ELSE 0
    IN  \A tag \in ToSet(Tags(m, block)) :
          FindFrom(m, block, depth, tag, hint) = Find(m, block, tag)

\* The tape is a tree laid flat, whatever was read and edited: spans end where their
\* contents do, depths and counts are those of the tree, a data field follows its
\* Length and has that size, the gap ends the header, and a lookup in a block without
\* repeats finds the same whatever hint it is given (insert, remove_at, grow,
\* shift_boundaries, push_late_header, find_in).
TypeOK ==
  /\ phase \in {"reading", "refused", "held"}
  /\ budget \in 0 .. MaxEdits
  /\ phase # "held" => views = <<>>
  /\ WellFormed(msg)
  /\ views = <<>> /\ NoRepeats(msg) => HintsHarmless(msg)

-----------------------------------------------------------------------------
\* What is written of a block: no group that writes nothing, no instance that
\* does not, and nothing that framing derives.
RECURSIVE Live(_)
Live(block) ==
  LET written(node) == ~node.group \/ \E n \in DOMAIN node.insts : Doc!WritesSomething(node.insts[n])
      kept == SelectSeq(block, written)
      live(node) == [node EXCEPT !.insts =
        LET some == SelectSeq(@, Doc!WritesSomething)
        IN  [n \in DOMAIN some |-> Live(some[n])]]
  IN  [k \in DOMAIN kept |-> live(kept[k])]

Unframed(block) == SelectSeq(block, LAMBDA node : node.tag \notin Framing)

Written(m) == [r \in Regions |-> Unframed(Live(DocOf(m)[r]))]

\* Every instance that is written has its group's delimiter, and the fields of
\* a group are in one.
Complete(m) ==
  /\ \A i \in DOMAIN m.tape : \A g \in DOMAIN Dict.members :
       m.tape[i].depth = 0 => m.tape[i].tag \notin Members(g)
  /\ \A g \in DOMAIN m.tape : m.tape[g].kind = "Group" =>
       \A q \in ToSet(LiveInstances(m, g)) :
         Find(m, Inside(m, q), Delimiter(m.tape[g].tag)) # None

\* Every field read so far is on the tape.
ReadSoFar(p) ==
  LET tagged == SelectSeq(p.msg.tape, IsTagged)
  IN  /\ Len(tagged) = Len(p.msg.wire)
      /\ \A field \in ToSet(p.msg.wire) : \E e \in ToSet(tagged) :
           e.tag = field.tag /\ (IsField(e) => e.val = field.val)

NotEmptyGroup(field) == ~(IsGroup(field.tag) /\ field.val = 0)

\* What is written can be read, and reads as what was meant: no field is lost while
\* reading; a message read and not edited is encoded as it came, but for empty
\* groups; and an edited one, if every instance has its delimiter, is written so
\* that parsing gives the same fields and groups, and never as the bytes it was
\* parsed from (encode, visit, live_instances, parse, insert_pos).
ReadsBack ==
  /\ phase = "reading" => ReadSoFar(parser)
  /\ phase = "held" /\ msg.clean =>
       SelectSeq(EncodeFields(msg), NotEmptyGroup) = SelectSeq(msg.wire, NotEmptyGroup)
  /\ phase = "held" /\ views = <<>> /\ NoRepeats(msg) /\ Complete(msg) =>
       \E p \in {Parse(Encode(msg))} : ~p.err /\ Written(p.msg) = Written(msg)

\* No edit makes a message that validate_strict accepts into one it refuses: a new
\* field goes where the definition of its group wants it, and none is ever there
\* twice (insert_pos, place_entries, copy, normalize).
EditsKeepValid ==
  [][phase = "held" /\ ValidateStrict(msg) => ValidateStrict(msg')]_vars
=============================================================================
