-------------------------------- MODULE Edit --------------------------------
(***************************************************************************)
(* Editing (message/edit.rs): the operations of the mutable views, each    *)
(* from a message to a message.  A view's place is recorded when it is     *)
(* made: the instance it edits (None for a region), the region, the        *)
(* definition of the instance's group, and the indices of every group and  *)
(* instance around its contents.                                           *)
(***************************************************************************)
EXTENDS Parser, FiniteSets

RegionPlace(region) ==
  [inst |-> None, region |-> region, def |-> None, ancestors |-> <<>>]

OwnerRange(m, place) ==
  IF place.inst = None THEN RegionRange(m, place.region) ELSE Inside(m, place.inst)

OwnerDepth(m, place) == IF place.inst = None THEN 0 ELSE m.tape[place.inst].depth

FindHere(m, place, tag) == Find(m, OwnerRange(m, place), tag)

\* The group a tag opens in a block.
IsGroupTag(place, tag) ==
  IF place.inst = None THEN TopLevelGroup(place.region = "Header", tag)
  ELSE IF place.def = None THEN None ELSE NestedGroup(place.def, tag)

-----------------------------------------------------------------------------
\* Tape surgery

Grow(m, ancestors, n) ==
  [m EXCEPT !.tape = [i \in DOMAIN @ |->
     IF i \in ToSet(ancestors) THEN [@[i] EXCEPT !.len = @ + n] ELSE @[i]]]

ShiftBoundaries(m, region, n) ==
  [m EXCEPT !.body_start = IF region = "Header" THEN @ + n ELSE @,
            !.trailer_start = IF region # "Trailer" THEN @ + n ELSE @]

\* A wrong form: an edit that forgets that the bytes it was parsed from no longer tell.
SpliceStale(m, block, entries) ==
  [m EXCEPT !.tape = SubSeq(@, 1, block.lo - 1) \o entries
                     \o SubSeq(@, block.hi, Len(@))]

\* Replace the entries of a range.
Splice(m, block, entries) ==
  [m EXCEPT !.tape = SubSeq(@, 1, block.lo - 1) \o entries
                     \o SubSeq(@, block.hi, Len(@)),
            !.clean = FALSE]

\* A wrong form: only the innermost of the groups and instances around grows.
InsertInner(m, region, ancestors, at, entries) ==
  LET n == Len(entries)
      inner == IF ancestors = <<>> THEN <<>> ELSE <<Last(ancestors)>>
  IN  ShiftBoundaries(Splice(Grow(m, inner, n), [lo |-> at, hi |-> at], entries),
                      region, n)

Insert(m, region, ancestors, at, entries) ==
  LET n == Len(entries)
      room == IF at \in DOMAIN m.tape /\ m.tape[at].kind = "Gap" /\ ancestors = <<>>
              THEN Span(m.tape[at]) ELSE 0
      filled == Splice(m, [lo |-> at, hi |-> at + n], entries)
  IN  IF room = n THEN filled
      ELSE IF room > n THEN [filled EXCEPT !.tape[at + n] = Gap(room - n)]
      ELSE ShiftBoundaries(Splice(Grow(m, ancestors, n), [lo |-> at, hi |-> at], entries),
                           region, n)

RemoveEntry(m, region, ancestors, at) ==
  LET n == Span(m.tape[at])
  IN  ShiftBoundaries(Splice(Grow(m, ancestors, 0 - n), [lo |-> at, hi |-> at + n], <<>>),
                      region, 0 - n)

\* A wrong form: at the end of the block, whatever the definition says.
InsertPosLast(m, place, tag) ==
  IF place.inst = None /\ place.region = "Header" /\ HeaderGapAt(m) # None
  THEN HeaderGapAt(m)
  ELSE OwnerRange(m, place).hi

\* Where a new entry goes: in an instance, by the group's definition.
InsertPos(m, place, tag) ==
  LET block == OwnerRange(m, place)
      def == Dict.members[place.def]
      after == SelectSeq(Children(m, block), LAMBDA i :
                 /\ IsTagged(m.tape[i])
                 /\ m.tape[i].tag \in Members(place.def)
                 /\ OrderIn(def, m.tape[i].tag) > OrderIn(def, tag))
  IN  IF place.def # None
      THEN IF tag \notin Members(place.def) \/ after = <<>> THEN block.hi ELSE after[1]
      ELSE IF place.inst = None /\ place.region = "Header" /\ HeaderGapAt(m) # None
      THEN HeaderGapAt(m)
      ELSE block.hi

\* The place of the block that holds an entry.
PlaceOf(m, idx) ==
  LET ancestors == AncestorsOf(m, idx)
      n == Len(ancestors)
  IN  IF n >= 2 /\ m.tape[ancestors[n]].kind = "Instance"
      THEN [inst |-> ancestors[n], region |-> RegionOf(m, idx),
            def |-> m.tape[ancestors[n - 1]].tag, ancestors |-> ancestors]
      ELSE RegionPlace(RegionOf(m, idx))

\* A wrong form: the group stays when its last instance goes.
PruneInstance(m, place) ==
  LET n == Len(place.ancestors)
      g == place.ancestors[n - 1]
      m1 == RemoveEntry(m, place.region, SubSeq(place.ancestors, 1, n - 1), place.inst)
  IN  IF place.inst = None \/ Writes(m, place.inst) THEN m
      ELSE [m1 EXCEPT !.tape[g].off = @ - 1]

\* An instance with nothing in it goes, and its group with its last instance.
Prune(m, place) ==
  LET n == Len(place.ancestors)
      g == place.ancestors[n - 1]
      outer == SubSeq(place.ancestors, 1, n - 2)
      m1 == RemoveEntry(m, place.region, Append(outer, g), place.inst)
      m2 == [m1 EXCEPT !.tape[g].off = @ - 1]
  IN  IF place.inst = None \/ Writes(m, place.inst) THEN m
      ELSE IF m2.tape[g].off = 0 THEN RemoveEntry(m2, place.region, outer, g)
      ELSE m2

-----------------------------------------------------------------------------
\* BlockMut

PlaceEntries(m, place, entries) ==
  LET depth == OwnerDepth(m, place)
      placed == [k \in DOMAIN entries |-> [entries[k] EXCEPT !.depth = depth]]
      i == FindHere(m, place, Last(entries).tag)
  IN  IF i = None
      THEN Insert(m, place.region, place.ancestors,
                  InsertPos(m, place, entries[1].tag), placed)
      ELSE Splice(m, [lo |-> i + 1 - Len(entries), hi |-> i + 1], placed)

\* The tags put refuses.
Derived(place, tag) ==
  tag \in Framing \/ IsLength(tag) \/ IsGroupTag(place, tag) # None

Put(m, place, tag, val) ==
  PlaceEntries(m, place, IF IsData(tag) THEN Pair(tag, val)
                         ELSE <<Entry("Field", tag, val)>>)

RemoveTag(m, place, tag) ==
  LET found == FindHere(m, place, tag)
      kind == m.tape[found].kind
      i == IF kind = "Data" THEN found - 1 ELSE found
      m1 == RemoveEntry(m, place.region, place.ancestors, i)
  IN  IF found = None THEN m
      ELSE IF kind \in {"Data", "DataLen"}
      THEN RemoveEntry(m1, place.region, place.ancestors, i)
      ELSE m1

\* Copy a field, a data field with its Length, or a group from a block of src.
Copy(m, place, src, block, tag) ==
  LET i == Find(src, block, tag)
      first == IF src.tape[i].kind = "Data" THEN i - 1 ELSE i
      last == IF src.tape[first].kind = "DataLen" THEN first + 2
              ELSE NextSibling(src, first)
      shift == OwnerDepth(m, place) - src.tape[first].depth
      entries == [k \in 1 .. last - first |->
                    [src.tape[first + k - 1] EXCEPT !.depth = @ + shift]]
      m1 == RemoveTag(m, place, tag)
  IN  Insert(m1, place.region, place.ancestors,
             InsertPos(m1, place, entries[1].tag), entries)

CopyValue(m, place, from, to) ==
  PlaceEntries(m, place, <<Entry("Field", to, m.tape[FindHere(m, place, from)].val)>>)

-----------------------------------------------------------------------------
\* GroupMut: the block the group is in, its tag, its entry if it had one when it
\* was last looked for, and its definition

GroupView(m, place, tag) ==
  LET i == FindHere(m, place, tag)
  IN  [parent |-> place, tag |-> tag, def |-> IsGroupTag(place, tag),
       idx |-> IF i # None /\ m.tape[i].kind = "Group" THEN i ELSE None]

\* The group's entry, if it is still there.
GroupAt(m, view) ==
  IF /\ view.idx \in DOMAIN m.tape
     /\ m.tape[view.idx].kind = "Group"
     /\ m.tape[view.idx].tag = view.tag
     /\ m.tape[view.idx].depth = OwnerDepth(m, view.parent)
  THEN view.idx ELSE None

GroupLen(m, view) ==
  IF GroupAt(m, view) = None THEN 0 ELSE m.tape[GroupAt(m, view)].off

InnerAncestors(view, g) == Append(view.parent.ancestors, g)

\* The nth instance, counting from 0, or the end of the group.
InstanceAt(m, view, n) ==
  LET g == GroupAt(m, view)
  IN  IF n = GroupLen(m, view) THEN NextSibling(m, g)
      ELSE Children(m, Inside(m, g))[n + 1]

Ensure(m, view) ==
  Insert(m, view.parent.region, view.parent.ancestors,
         InsertPos(m, view.parent, view.tag),
         <<GroupEntry(view.tag, OwnerDepth(m, view.parent))>>)

\* The place of an instance of the group at g.
InstancePlace(view, g, q) ==
  [inst |-> q, region |-> view.parent.region, def |-> view.def,
   ancestors |-> Append(InnerAncestors(view, g), q)]

\* A new instance before the nth: the message, the group's view and the
\* instance's place.
InsertInstance(m, view, n) ==
  LET known == GroupAt(m, view) # None
      m1 == IF known THEN m ELSE Ensure(m, view)
      g == IF known THEN GroupAt(m, view) ELSE InsertPos(m, view.parent, view.tag)
      view1 == [view EXCEPT !.idx = g]
      at == InstanceAt(m1, view1, n)
      m2 == Insert(m1, view.parent.region, InnerAncestors(view, g), at,
                   <<InstanceEntry(m1.tape[g].depth + 1)>>)
  IN  [msg |-> [m2 EXCEPT !.tape[g].off = @ + 1], view |-> view1,
       place |-> InstancePlace(view, g, at)]

ClearGroup(m, view) ==
  IF GroupAt(m, view) = None THEN m
  ELSE RemoveEntry(m, view.parent.region, view.parent.ancestors, GroupAt(m, view))

RemoveInstance(m, view, n) ==
  LET g == GroupAt(m, view)
      m1 == RemoveEntry(m, view.parent.region, InnerAncestors(view, g),
                        InstanceAt(m, view, n))
      m2 == [m1 EXCEPT !.tape[g].off = @ - 1]
  IN  IF m2.tape[g].off = 0 THEN ClearGroup(m2, view) ELSE m2

\* Keep the instances whose places in the group are in keep.
Retain(m, view, keep) ==
  LET g == GroupAt(m, view)
      old == Children(m, Inside(m, g))
      entries(q) == SubSeq(m.tape, q, NextSibling(m, q) - 1)
      kept == FlattenSeq([k \in DOMAIN old |->
                            IF k - 1 \in keep THEN entries(old[k]) ELSE <<>>])
      removed == NextSibling(m, g) - (g + 1) - Len(kept)
      m1 == Grow(Splice(m, Inside(m, g), kept), InnerAncestors(view, g), 0 - removed)
      m2 == ShiftBoundaries(m1, view.parent.region, 0 - removed)
  IN  IF removed = 0 THEN m
      ELSE IF keep = {} THEN ClearGroup(m, view)
      ELSE [m2 EXCEPT !.tape[g].off = Cardinality(keep)]

-----------------------------------------------------------------------------
\* The whole message

\* A path: a region, the group and instance of each step down, and a tag, None
\* for the instance itself.
Resolve(m, path) ==
  LET nowhere == [lo |-> 0, hi |-> 0]
      down(block, step) ==
        LET g == Find(m, block, step.group)
            instances == Children(m, Inside(m, g))
        IN  IF g = None \/ step.n >= Len(instances) THEN nowhere
            ELSE Inside(m, instances[step.n + 1])
      block == FoldLeft(down, RegionRange(m, path.region), path.steps)
  IN  IF block = nowhere THEN None
      ELSE IF path.tag # None THEN Find(m, block, path.tag)
      ELSE IF path.steps # <<>> THEN block.lo - 1
      ELSE None

\* The path of an entry.  Around it are groups and instances by turns.
PathOf(m, idx) ==
  LET around == Append(AncestorsOf(m, idx), idx)
      step(g, q) == [group |-> m.tape[g].tag, n |-> InstanceIndex(m, g, q)]
  IN  [region |-> RegionOf(m, idx),
       steps |-> [k \in 1 .. Len(around) \div 2 |-> step(around[2 * k - 1], around[2 * k])],
       tag |-> m.tape[idx].tag]

\* CursorMut::remove.
CursorRemove(m, idx) ==
  LET place == PlaceOf(m, idx)
      g == Enclosing(m, idx)
      view == GroupView(m, PlaceOf(m, g), m.tape[g].tag)
  IN  IF m.tape[idx].kind = "Instance"
      THEN RemoveInstance(m, view, InstanceIndex(m, g, idx))
      ELSE Prune(RemoveTag(m, place, m.tape[idx].tag), place)

\* values_mut, with a function that gives fields of one tag a value.
ValuesMut(m, tag, val) ==
  LET hits == {i \in DOMAIN m.tape : m.tape[i].kind = "Field" /\ m.tape[i].tag = tag}
  IN  [m EXCEPT !.tape = [i \in DOMAIN @ |->
                            IF i \in hits THEN [@[i] EXCEPT !.val = val] ELSE @[i]],
                !.clean = @ /\ hits = {}]

\* stamp_sending_time: in place where there is a slot, as put does where not.
StampSendingTime(m, val) == Put(m, RegionPlace("Header"), 52, val)

-----------------------------------------------------------------------------
\* Canonical order (normalize.rs)

\* The entries of a block, each child a run that moves as one.
RECURSIVE Reorder(_, _, _)
Reorder(m, block, def) ==
  LET children == SelectSeq(Children(m, block),
                            LAMBDA i : m.tape[i].kind \notin {"Gap", "Data"})
      before(i, j) ==
        LET a == OrderIn(def, m.tape[i].tag)
            b == OrderIn(def, m.tape[j].tag)
            s == m.tape[i].tag
            t == m.tape[j].tag
        IN  a < b \/ (a = b /\ (s < t \/ (s = t /\ i < j)))
      instance(q, tag) == <<m.tape[q]>> \o Reorder(m, Inside(m, q), Dict.members[tag])
      run(i) ==
        LET e == m.tape[i]
            inner == Children(m, Inside(m, i))
        IN  CASE e.kind = "DataLen" -> <<e, m.tape[i + 1]>>
              [] e.kind = "Group" ->
                   <<e>> \o FlattenSeq([k \in DOMAIN inner |-> instance(inner[k], e.tag)])
              [] OTHER -> <<e>>
      sorted == SortSeq(children, before)
  IN  FlattenSeq([k \in DOMAIN sorted |-> run(sorted[k])])

Normalize(m) ==
  LET header == PushGap(Reorder(m, RegionRange(m, "Header"), Dict.header))
      body == Reorder(m, RegionRange(m, "Body"), Dict.body)
      trailer == Reorder(m, RegionRange(m, "Trailer"), Dict.trailer)
  IN  [m EXCEPT !.tape = header \o body \o trailer,
                !.body_start = Len(header) + 1,
                !.trailer_start = Len(header) + Len(body) + 1, !.clean = FALSE]

-----------------------------------------------------------------------------
\* The rules parsing does not enforce (validate.rs)

Tags(m, block) ==
  LET tagged == SelectSeq(Children(m, block), LAMBDA i : IsTagged(m.tape[i]))
  IN  [k \in DOMAIN tagged |-> m.tape[tagged[k]].tag]

CheckUnique(tags) == Cardinality(ToSet(tags)) = Len(tags)

InDefinitionOrder(g, tags) ==
  LET def == Dict.members[g]
      members == SelectSeq(tags, LAMBDA tag : tag \in ToSet(def))
  IN  \A i, j \in DOMAIN members :
        i < j => OrderIn(def, members[i]) <= OrderIn(def, members[j])

CheckGroup(m, g) ==
  \A q \in ToSet(Children(m, Inside(m, g))) :
    /\ InDefinitionOrder(m.tape[g].tag, Tags(m, Inside(m, q)))
    /\ CheckUnique(Tags(m, Inside(m, q)))

ValidateStrict(m) ==
  /\ CheckUnique(Tags(m, [lo |-> 1, hi |-> Len(m.tape) + 1]))
  /\ \A g \in DOMAIN m.tape : m.tape[g].kind = "Group" => CheckGroup(m, g)
=============================================================================
