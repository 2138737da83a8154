-------------------------------- MODULE Tape --------------------------------
(***************************************************************************)
(* A message as a flat tape of entries (message/tape.rs), how it is read   *)
(* (view.rs) and written (encode.rs).                                      *)
(*                                                                         *)
(* Indices count from 1 and 0 is None.  A field's bytes are a number,      *)
(* which for a data field is also its size; where they are kept does not   *)
(* show.  What is read or written is a sequence of fields: a group's count *)
(* and a data field's length are their values.                             *)
(***************************************************************************)
EXTENDS Integers, Sequences, SequencesExt

CONSTANTS
  HeaderGap,  \* HEADER_GAP
  Dict        \* the dictionary: the order of each region's tags and of each
              \* group's members, and the Length tag of each data tag

ASSUME HeaderGapAssumption == HeaderGap \in Nat \ {0}

ASSUME DictAssumption ==
  /\ DOMAIN Dict = {"header", "body", "trailer", "members", "length"}
  /\ \A g \in DOMAIN Dict.members : Dict.members[g] # <<>>

None == 0

Regions == {"Header", "Body", "Trailer"}

-----------------------------------------------------------------------------
\* The dictionary (dict.rs)

IsHeader(tag) == tag \in ToSet(Dict.header)

IsTrailer(tag) == tag \in ToSet(Dict.trailer)

IsData(tag) == tag \in DOMAIN Dict.length

IsLength(tag) == \E data \in DOMAIN Dict.length : Dict.length[data] = tag

DataOf(tag) == CHOOSE data \in DOMAIN Dict.length : Dict.length[data] = tag

Members(g) == ToSet(Dict.members[g])

Delimiter(g) == Dict.members[g][1]

IsGroup(tag) == tag \in DOMAIN Dict.members

TopLevelGroup(header, tag) ==
  IF IsGroup(tag) /\ tag \in ToSet(IF header THEN Dict.header ELSE Dict.body)
  THEN tag ELSE None

NestedGroup(g, tag) == IF IsGroup(tag) /\ tag \in Members(g) THEN tag ELSE None

\* The place of a tag in a definition, after every other if it has none.
OrderIn(def, tag) ==
  IF tag \in ToSet(def) THEN CHOOSE i \in DOMAIN def : def[i] = tag
  ELSE Len(def) + 1

-----------------------------------------------------------------------------
\* Entries

Entry(kind, tag, val) ==
  [kind |-> kind, tag |-> tag, depth |-> 0, off |-> 0, len |-> 0, val |-> val]

Gap(span) == [Entry("Gap", 0, 0) EXCEPT !.len = span]

GroupEntry(tag, depth) ==
  [Entry("Group", tag, 0) EXCEPT !.depth = depth, !.len = 1]

InstanceEntry(depth) == [Entry("Instance", 0, 0) EXCEPT !.depth = depth, !.len = 1]

\* A data field and its Length.
Pair(tag, val) ==
  <<Entry("DataLen", Dict.length[tag], val), Entry("Data", tag, val)>>

IsField(e) == e.kind \in {"Field", "DataLen", "Data"}

IsTagged(e) == e.kind \notin {"Gap", "Instance"}

Span(e) ==
  IF e.kind \in {"Gap", "Group", "Instance"} /\ e.len > 1 THEN e.len ELSE 1

-----------------------------------------------------------------------------
\* Messages

PushGap(tape) ==
  tape \o <<Gap(HeaderGap)>> \o [i \in 1 .. HeaderGap - 1 |-> Gap(0)]

NewMessage ==
  LET tape == PushGap(<<Entry("Field", 8, 0), Entry("Field", 35, 0)>>)
  IN  [tape |-> tape, body_start |-> Len(tape) + 1,
       trailer_start |-> Len(tape) + 1, clean |-> FALSE, wire |-> <<>>]

\* A block is the range of its contents, from lo up to and not including hi.
RegionRange(m, region) ==
  CASE region = "Header"  -> [lo |-> 1, hi |-> m.body_start]
    [] region = "Body"    -> [lo |-> m.body_start, hi |-> m.trailer_start]
    [] region = "Trailer" -> [lo |-> m.trailer_start, hi |-> Len(m.tape) + 1]

RegionOf(m, i) ==
  CASE i < m.body_start -> "Header"
    [] i >= m.trailer_start -> "Trailer"
    [] OTHER -> "Body"

NextSibling(m, i) == i + Span(m.tape[i])

Inside(m, i) == [lo |-> i + 1, hi |-> NextSibling(m, i)]

\* The entries directly in a block, as every loop over one visits them.
Children(m, block) ==
  LET from[i \in Nat] ==
        IF i >= block.hi THEN <<>> ELSE <<i>> \o from[NextSibling(m, i)]
  IN  from[block.lo]

Scan(m, block, tag) ==
  LET hits == SelectSeq(Children(m, block),
                LAMBDA i : m.tape[i].tag = tag /\ IsTagged(m.tape[i]))
  IN  IF hits = <<>> THEN None ELSE hits[1]

IsBoundary(m, i, depth) ==
  m.tape[i].depth = depth /\ m.tape[i].kind # "Instance"

\* find_in from a hint: a hint that is no boundary of the block is ignored.
FindFrom(m, block, depth, tag, hint) ==
  IF hint > block.lo /\ hint < block.hi /\ IsBoundary(m, hint, depth)
  THEN LET found == Scan(m, [block EXCEPT !.lo = hint], tag)
       IN  IF found # None THEN found
           ELSE Scan(m, [block EXCEPT !.hi = hint], tag)
  ELSE Scan(m, block, tag)

Find(m, block, tag) == Scan(m, block, tag)

HeaderGapAt(m) ==
  LET hits == SelectSeq(Children(m, RegionRange(m, "Header")),
                LAMBDA i : m.tape[i].kind = "Gap"
                           /\ NextSibling(m, i) = m.body_start)
  IN  IF hits = <<>> THEN None ELSE hits[1]

\* Every group and instance around an entry, outermost first: where the walk
\* down to it enters.
AncestorsOf(m, idx) ==
  SelectSeq([i \in 1 .. idx - 1 |-> i], LAMBDA i :
    m.tape[i].kind \in {"Group", "Instance"} /\ NextSibling(m, i) > idx)

\* The instance a field is in, or the group an instance is in.
Enclosing(m, idx) ==
  IF AncestorsOf(m, idx) = <<>> THEN None ELSE Last(AncestorsOf(m, idx))

\* Which instance of the group at g is at q, counting from 0.
InstanceIndex(m, g, q) ==
  Len(SelectSeq(Children(m, Inside(m, g)), LAMBDA i : i < q))

-----------------------------------------------------------------------------
\* Writing (encode.rs)

\* Whether an entry writes anything: a field does, an instance or a group does
\* if something in it does.
Writes(m, idx) ==
  LET writes[i \in Nat] ==
        \/ IsField(m.tape[i])
        \/ /\ m.tape[i].kind \in {"Group", "Instance"}
           /\ \E k \in ToSet(Children(m, Inside(m, i))) : writes[k]
  IN  writes[idx]

LiveInstances(m, g) ==
  SelectSeq(Children(m, Inside(m, g)), LAMBDA q : Writes(m, q))

Framing == {8, 9, 10, 35}

\* The fields between BodyLength and CheckSum: MsgType, then the rest in order.
Visit(m) ==
  LET field(tag, val) == <<[tag |-> tag, val |-> val]>>
      type == Find(m, RegionRange(m, "Header"), 35)
      from[i \in Nat] ==
        IF i > Len(m.tape) THEN <<>>
        ELSE LET e == m.tape[i]
             IN  CASE e.kind = "Gap" -> from[NextSibling(m, i)]
                   [] e.kind = "Instance" -> from[i + 1]
                   [] e.kind = "Group" ->
                        IF LiveInstances(m, i) = <<>> THEN from[NextSibling(m, i)]
                        ELSE field(e.tag, Len(LiveInstances(m, i))) \o from[i + 1]
                   [] OTHER ->
                        IF e.depth = 0 /\ e.tag \in Framing THEN from[i + 1]
                        ELSE field(e.tag, e.val) \o from[i + 1]
  IN  (IF type = None THEN <<>> ELSE field(35, m.tape[type].val)) \o from[1]

\* BodyLength and CheckSum are derived, and have no value here.
EncodeFields(m) ==
  LET derived(tag) == <<[tag |-> tag, val |-> 0]>>
  IN  derived(8) \o derived(9) \o Visit(m) \o derived(10)

Encode(m) == IF m.clean /\ m.wire # <<>> THEN m.wire ELSE EncodeFields(m)
=============================================================================
