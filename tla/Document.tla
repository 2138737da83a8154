------------------------------ MODULE Document ------------------------------
(***************************************************************************)
(* What the mutable views of a message promise (message/edit.rs): an edit  *)
(* changes the block or group it is made through, as asked, and nothing    *)
(* else; a view stays where it is while edits are made through it.         *)
(*                                                                         *)
(* A document gives each region a sequence of nodes.  A node is a field,   *)
(* or a group with a sequence of instances, themselves sequences of nodes. *)
(* A data field is one node: its Length is not seen.                       *)
(***************************************************************************)
EXTENDS Integers, Sequences, SequencesExt

CONSTANTS
  AllTags, \* the tags of fields
  NewVal,  \* the value that values_mut gives them
  Blank    \* a new message

VARIABLES
  doc,     \* the document; Nothing while there is none
  at       \* the addresses of the views in use, each made from the one before

vars == <<doc, at>>

Nothing == [r \in {"Header", "Body", "Trailer"} |-> <<>>]

-----------------------------------------------------------------------------
\* Documents

\* The place of the first node with a tag, 0 if there is none.
Where(block, tag) ==
  LET hits == {i \in DOMAIN block : block[i].tag = tag}
  IN  IF hits = {} THEN 0 ELSE CHOOSE i \in hits : \A j \in hits : i <= j

RECURSIVE Down(_, _)
Down(block, steps) ==
  IF steps = <<>> THEN block
  ELSE LET i == Where(block, steps[1].group)
       IN  IF i = 0 \/ steps[1].n >= Len(block[i].insts) THEN <<>>
           ELSE Down(block[i].insts[steps[1].n + 1], Tail(steps))

RECURSIVE With(_, _, _)
With(block, steps, new) ==
  IF steps = <<>> THEN new
  ELSE LET i == Where(block, steps[1].group)
       IN  IF i = 0 \/ steps[1].n >= Len(block[i].insts) THEN block
           ELSE [block EXCEPT ![i].insts[steps[1].n + 1] = With(@, Tail(steps), new)]

BlockAt(d, a) == Down(d[a.region], a.steps)

WithBlock(d, a, new) == [d EXCEPT ![a.region] = With(@, a.steps, new)]

RECURSIVE WritesSomething(_)
WritesSomething(block) ==
  \E i \in DOMAIN block :
    \/ ~block[i].group
    \/ \E n \in DOMAIN block[i].insts : WritesSomething(block[i].insts[n])

\* A group without some of its instances; none left, no group.
Keep(block, tag, keep) ==
  LET i == Where(block, tag)
      ns == SelectSeq([n \in DOMAIN block[i].insts |-> n], LAMBDA n : n \in keep)
      left == [k \in DOMAIN ns |-> block[i].insts[ns[k]]]
  IN  IF left = <<>> THEN RemoveAt(block, i) ELSE [block EXCEPT ![i].insts = left]

\* The document without the instance at an address.
Without(d, a) ==
  LET up == [a EXCEPT !.steps = Front(@)]
      block == BlockAt(d, up)
      step == Last(a.steps)
      others == DOMAIN block[Where(block, step.group)].insts \ {step.n + 1}
  IN  WithBlock(d, up, Keep(block, step.group, others))

Pruned(d, a) ==
  IF a.steps = <<>> \/ WritesSomething(BlockAt(d, a)) THEN d ELSE Without(d, a)

\* The same nodes in any order, where none is repeated; instances keep theirs.
RECURSIVE Unordered(_)
Unordered(block) ==
  {[block[i] EXCEPT !.insts = [n \in DOMAIN @ |-> Unordered(@[n])]] : i \in DOMAIN block}

RECURSIVE Revalued(_, _)
Revalued(block, tag) ==
  [i \in DOMAIN block |->
     [block[i] EXCEPT
        !.val = IF block[i].tag = tag /\ ~block[i].group THEN NewVal ELSE @,
        !.insts = [n \in DOMAIN @ |-> Revalued(@[n], tag)]]]

-----------------------------------------------------------------------------
\* Edits of one block

\* A field, new or in place of the one with its tag.
PutIn(block, new) ==
  \E i \in DOMAIN new :
    /\ ~new[i].group
    /\ \/ Where(block, new[i].tag) = 0 /\ RemoveAt(new, i) = block
       \/ Where(block, new[i].tag) = i /\ new = [block EXCEPT ![i].val = new[i].val]

\* A node of another message, new or instead of the one with its tag.
CopyIn(block, new) ==
  \E i \in DOMAIN new :
    LET old == Where(block, new[i].tag)
    IN  RemoveAt(new, i) = IF old = 0 THEN block ELSE RemoveAt(block, old)

RemoveIn(block, new) == \E i \in DOMAIN block : new = RemoveAt(block, i)

\* An empty instance, new in its group, which may be new too.
InstanceIn(block, new, tag, n) ==
  LET i == Where(new, tag)
  IN  /\ i # 0
      /\ n + 1 \in DOMAIN new[i].insts
      /\ new[i].insts[n + 1] = <<>>
      /\ IF Where(block, tag) = 0
         THEN Len(new[i].insts) = 1 /\ RemoveAt(new, i) = block
         ELSE block = [new EXCEPT ![i].insts = RemoveAt(@, n + 1)]

-----------------------------------------------------------------------------
\* Steps: what may become of a document d with views a, if e and b come of them

Kind(a) == IF a = <<>> THEN "None" ELSE Last(a).kind

\* One block changes.
ChangesOnly(d, e, address) == e = WithBlock(d, address, BlockAt(e, address))

Open(d, a, e, b) ==
  /\ a = <<>> /\ Len(b) = 1 /\ e = d
  /\ \/ b[1].kind = "Block" /\ b[1].steps = <<>>
     \/ b[1].kind = "Cursor" /\ (b[1].tag = 0 \/ Where(BlockAt(d, b[1]), b[1].tag) # 0)

EditBlock(d, a, e, b) ==
  /\ Kind(a) \in {"Block", "Instance"} /\ b = a
  /\ ChangesOnly(d, e, Last(a))
  /\ \E old \in {BlockAt(d, Last(a))}, new \in {BlockAt(e, Last(a))} :
       PutIn(old, new) \/ CopyIn(old, new) \/ RemoveIn(old, new)

OpenGroup(d, a, e, b) ==
  /\ Kind(a) \in {"Block", "Instance"} /\ Kind(b) = "Group" /\ e = d
  /\ b = Append(a, [Last(a) EXCEPT !.kind = "Group", !.tag = Last(b).tag])

\* The address of the nth instance, counting from 0, of the group of a view.
Inner(address, n) ==
  [address EXCEPT !.kind = "Instance", !.tag = 0,
                  !.steps = Append(@, [group |-> address.tag, n |-> n])]

GetInstance(d, a, e, b) ==
  /\ Kind(a) = "Group" /\ Kind(b) = "Instance" /\ e = d
  /\ \E block \in {BlockAt(d, Last(a))} :
       /\ Where(block, Last(a).tag) # 0
       /\ \E n \in DOMAIN block[Where(block, Last(a).tag)].insts :
            b = Append(a, Inner(Last(a), n - 1))

\* The view of the new instance is made from those of below.
AddInstance(d, a, e, b, below) ==
  /\ Kind(a) \in {"Group", "Cursor"} /\ Kind(b) = "Instance"
  /\ \E n \in {Last(Last(b).steps).n} :
       /\ b = Append(below, Inner(Last(a), n))
       /\ ChangesOnly(d, e, Last(a))
       /\ InstanceIn(BlockAt(d, Last(a)), BlockAt(e, Last(a)), Last(a).tag, n)

EditGroup(d, a, e, b) ==
  /\ Kind(a) = "Group" /\ b = a
  /\ \E block \in {BlockAt(d, Last(a))} :
       /\ Where(block, Last(a).tag) # 0
       /\ \E keep \in SUBSET DOMAIN block[Where(block, Last(a).tag)].insts :
            e = WithBlock(d, Last(a), Keep(block, Last(a).tag, keep))

\* A view is dropped; an instance's goes with the instance if that is empty.
Close(d, a, e, b) ==
  /\ a # <<>> /\ b = Front(a)
  /\ e = IF Last(a).kind = "Instance" THEN Pruned(d, Last(a)) ELSE d

\* A position is used once: to set, to remove, or to edit its group or its block,
\* which for the position of an instance is the region.
UseCursor(d, a, e, b) ==
  /\ Kind(a) = "Cursor"
  /\ \E here \in {Last(a)}, block \in {BlockAt(d, Last(a))} :
       \/ /\ b = <<>> /\ here.tag # 0
          /\ \E i \in {Where(block, here.tag)}, new \in {BlockAt(e, here)} :
               \/ /\ i \in DOMAIN new
                  /\ e = WithBlock(d, here, [block EXCEPT ![i].val = new[i].val])
               \/ e = Pruned(WithBlock(d, here, RemoveAt(block, i)), here)
       \/ /\ b = <<>> /\ here.tag = 0
          /\ e = Without(d, here)
       \/ /\ b = <<[here EXCEPT !.kind = "Block", !.tag = 0,
                              !.steps = IF here.tag = 0 THEN <<>> ELSE @]>>
          /\ e = d
       \/ AddInstance(d, a, e, b, <<>>)

\* stamp_sending_time, normalize, values_mut, reset.
EditAll(d, a, e, b) ==
  /\ a = <<>> /\ b = <<>>
  /\ \/ PutIn(d.Header, e.Header) /\ e = [d EXCEPT !.Header = e.Header]
     \/ \A r \in DOMAIN d : Unordered(e[r]) = Unordered(d[r])
     \/ \E tag \in AllTags : e = [r \in DOMAIN d |-> Revalued(d[r], tag)]
     \/ e = Blank

Step(d, a, e, b) ==
  \/ d = Nothing /\ b = a
  \/ Open(d, a, e, b)
  \/ EditBlock(d, a, e, b)
  \/ OpenGroup(d, a, e, b)
  \/ GetInstance(d, a, e, b)
  \/ AddInstance(d, a, e, b, a)
  \/ EditGroup(d, a, e, b)
  \/ Close(d, a, e, b)
  \/ UseCursor(d, a, e, b)
  \/ EditAll(d, a, e, b)

Next == \E d \in {doc}, a \in {at}, e \in {doc'}, b \in {at'} : Step(d, a, e, b)

Spec == at = <<>> /\ [][Next]_vars
=============================================================================
