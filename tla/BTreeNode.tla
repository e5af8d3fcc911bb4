------------------------------ MODULE BTreeNode -------------------------------
(***************************************************************************)
(* The pages of the B+-tree (btree.hpp): fences and the prefix they share, *)
(* slots with key heads, hints, the space of slots and heap, and the page  *)
(* operations that insert, remove, split and merge.  One call at a time:   *)
(* BTree has the latches.                                                  *)
(*                                                                         *)
(* A key is a sequence of bytes.  Slots are numbered from 0 as in the      *)
(* code; sizes are in bytes and leave the page header out.                 *)
(***************************************************************************)
EXTENDS Integers, Sequences, FiniteSets, SequencesExt

CONSTANTS Keys, PageSize, SlotSize, ValueLen, PidLen,
          HeadLen,     \* bytes of a head: 4
          HintCount,   \* 16
          Many,        \* slots from which a leaf looks for a short separator: 16
          Byte,        \* the number of values of a byte: 256
          MaxPages,    \* bound: the pages there are
          MaxRemovals  \* bound: the calls of remove

VARIABLES nodes, root, made,
          stored,      \* history: the keys inserted and not removed
          removals     \* the number of removes so far

vars == <<nodes, root, made, stored, removals>>

UnderFull == (PageSize \div 2) + (PageSize \div 4)
MaxKVSize == (PageSize - 2 * SlotSize) \div 4
Pages == 1..MaxPages
NoPage == -1

ASSUME LayoutAssumption ==
  /\ PageSize \in Nat /\ SlotSize \in Nat
  /\ ValueLen \in Nat /\ ValueLen <= MaxKVSize
  /\ PidLen \in Nat /\ PidLen <= MaxKVSize
ASSUME SearchAssumption ==
  HeadLen \in Nat /\ HintCount \in Nat \ {0} /\ Many \in Nat \ {0, 1} /\ Byte \in Nat \ {0}
ASSUME PagesAssumption == MaxPages \in Nat \ {0} /\ MaxRemovals \in Nat
\* A key is a byte string; the empty one is the fence without a key.
ASSUME KeysAssumption == Keys \subseteq Seq(0..(Byte - 1)) \ {<<>>}
ASSUME KeysFit == \A k \in Keys : Len(k) + ValueLen <= MaxKVSize

-------------------------------------------------------------------------------
(* Keys. *)

\* cust_memcmp and the lengths: the order of byte strings.
SharedLen(a, b) ==
  Max({i \in 0..Len(a) : i <= Len(b) /\ \A j \in 1..i : a[j] = b[j]})
Less(a, b) == LET i == SharedLen(a, b)
              IN i < Len(b) /\ (i = Len(a) \/ a[i + 1] < b[i + 1])

\* The first bytes as a number; what a short key lacks is 0.
HeadOf(k) == LET h[i \in 0..HeadLen] ==
                 IF i = 0 THEN 0
                 ELSE h[i - 1] * Byte + (IF i <= Len(k) THEN k[i] ELSE 0)
           IN h[HeadLen]

-------------------------------------------------------------------------------
(* A page.  Its prefix is what the fences share; slots keep the rest of a key,  *)
(* and as payload a value (NoPage) or the child with the keys up to it.  link is *)
(* upperInnerNode or nextLeafNode.  Space from data to the end is heap, of which *)
(* the entries and fences use "used".                                           *)

Fresh(leaf, lower, upper) ==
  [leaf |-> leaf, lower |-> lower, upper |-> upper, link |-> NoPage, slots |-> <<>>,
   hints |-> [i \in 0..(HintCount - 1) |-> 0],
   used |-> Len(lower) + Len(upper), data |-> PageSize - Len(lower) - Len(upper)]

Count(n) == Len(n.slots)
Slot(n, i) == n.slots[i + 1]
PrefixLen(n) == SharedLen(n.lower, n.upper)
FullKey(n, i) == SubSeq(n.lower, 1, PrefixLen(n)) \o Slot(n, i).key
Rest(n, k) == SubSeq(k, PrefixLen(n) + 1, Len(k))
HeadAt(n, i) == IF i < Count(n) THEN HeadOf(Slot(n, i).key) ELSE 0

\* The heap bytes of slots whose payloads have the given length.
SizeOf(slots, pay) == LET size[i \in 0..Len(slots)] ==
                            IF i = 0 THEN 0 ELSE size[i - 1] + Len(slots[i].key) + pay
                      IN size[Len(slots)]
PayLen(n) == IF n.leaf THEN ValueLen ELSE PidLen
EntrySize(n, i) == Len(Slot(n, i).key) + PayLen(n)
FreeSpace(n) == n.data - SlotSize * Count(n)
FreeAfter(n) == PageSize - SlotSize * Count(n) - n.used        \* freeSpaceAfterCompaction
SpaceNeeded(n, len) == SlotSize + (len - PrefixLen(n)) + PayLen(n)
HasSpaceFor(n, len) == SpaceNeeded(n, len) <= FreeAfter(n)

HintDist(n) == Count(n) \div (HintCount + 1)
HintsFrom(n, begin) ==
  [n EXCEPT !.hints = [i \in DOMAIN @ |-> IF i < begin THEN @[i] ELSE HeadAt(n, HintDist(n) * (i + 1))]]
MakeHint(n) == HintsFrom(n, 0)

\* Variant: one hint too few is renewed.
UpdateHintLate(n, slot) ==
  LET dist == HintDist(n)
      some == /\ Count(n) > HintCount * 2 + 1 /\ (Count(n) - 1) \div (HintCount + 1) = dist
              /\ slot \div dist > 0
  IN HintsFrom(n, IF some THEN slot \div dist ELSE 0)
UpdateHint(n, slot) ==
  LET dist == HintDist(n)
      some == /\ Count(n) > HintCount * 2 + 1 /\ (Count(n) - 1) \div (HintCount + 1) = dist
              /\ slot \div dist > 1
  IN HintsFrom(n, IF some THEN slot \div dist - 1 ELSE 0)

\* The slots to search for a head, <<from, below>>.
SearchHint(n, head) ==
  IF Count(n) <= HintCount * 2 THEN <<0, Count(n)>>
  ELSE LET dist == HintDist(n)
           pos == Min({i \in 0..HintCount : i = HintCount \/ n.hints[i] >= head})
           pos2 == Min({i \in pos..HintCount : i = HintCount \/ n.hints[i] # head})
       IN <<pos * dist, IF pos2 < HintCount THEN (pos2 + 1) * dist ELSE Count(n)>>

\* The binary search, <<slot, whether its key is the rest>>.
SearchSlots(n, rest) ==
  LET Search[range \in (0..Count(n)) \X (0..Count(n))] ==
        LET lo == range[1]  hi == range[2]
            mid == (hi - lo) \div 2 + lo
            at == Slot(n, mid).key
        IN IF lo >= hi THEN <<lo, FALSE>>
           ELSE IF \/ HeadOf(rest) < HeadOf(at)
                   \/ HeadOf(rest) = HeadOf(at) /\ Less(rest, at) THEN Search[<<lo, mid>>]
           ELSE IF rest # at THEN Search[<<mid + 1, hi>>]
           ELSE <<mid, TRUE>>
  IN Search[SearchHint(n, HeadOf(rest))]

\* The first slot whose key is not less, <<slot, whether it is the key>>.
LowerBound(n, k) ==
  LET prefix == SubSeq(n.lower, 1, PrefixLen(n))
  IN IF IsPrefix(prefix, k) THEN SearchSlots(n, Rest(n, k))
     ELSE IF Less(k, prefix) THEN <<0, FALSE>> ELSE <<Count(n), FALSE>>

\* copyKeyValueRange, into another page with its own prefix.
CopyRange(dst, src, from, to) ==
  LET new == [i \in 1..(to - from + 1) |->
                [key |-> Rest(dst, FullKey(src, from + i - 1)), pay |-> Slot(src, from + i - 1).pay]]
      size == SizeOf(new, PayLen(src))
  IN [dst EXCEPT !.slots = @ \o new, !.used = @ + size, !.data = @ - size]
CopyAll(dst, src) == CopyRange(dst, src, 0, Count(src) - 1)

Compactified(n) == MakeHint([CopyAll(Fresh(n.leaf, n.lower, n.upper), n) EXCEPT !.link = n.link])

\* Variant: the page is compacted only if it is full to the last byte.
InsertInFullPage(n, k, pay) ==
  LET m == IF FreeSpace(n) = 0 THEN Compactified(n) ELSE n
      slot == LowerBound(m, k)[1]
      size == Len(Rest(m, k)) + PayLen(m)
  IN UpdateHint([m EXCEPT !.slots = InsertAt(@, slot + 1, [key |-> Rest(m, k), pay |-> pay]),
                          !.used = @ + size, !.data = @ - size], slot)
InsertInPage(n, k, pay) ==
  LET m == IF SpaceNeeded(n, Len(k)) > FreeSpace(n) THEN Compactified(n) ELSE n
      slot == LowerBound(m, k)[1]
      size == Len(Rest(m, k)) + PayLen(m)
  IN UpdateHint([m EXCEPT !.slots = InsertAt(@, slot + 1, [key |-> Rest(m, k), pay |-> pay]),
                          !.used = @ + size, !.data = @ - size], slot)

RemoveSlot(n, slot) ==
  MakeHint([n EXCEPT !.slots = RemoveAt(@, slot + 1), !.used = @ - EntrySize(n, slot)])

LookupInner(n, k) == LET pos == LowerBound(n, k)[1]
                     IN IF pos = Count(n) THEN n.link ELSE Slot(n, pos).pay

-------------------------------------------------------------------------------
(* Split. *)

CommonPrefix(n, i, j) == SharedLen(Slot(n, i).key, Slot(n, j).key)

\* Between 7/16 and 1/2: the first slot that shares less with slot 0, if there is one.
ShortSeparatorSlot(n) ==
  LET lower == Count(n) \div 2 - Count(n) \div Many
      upper == Count(n) \div 2
      best == CommonPrefix(n, lower, 0)
  IN IF best = CommonPrefix(n, upper - 1, 0) THEN lower
     ELSE Min({s \in (lower + 1)..upper : s = upper \/ CommonPrefix(n, s, 0) # best})

SplitSlot(n, ordered) ==
  IF ~n.leaf THEN Count(n) \div 2
  ELSE IF ordered THEN Count(n) - 2
  ELSE IF Count(n) > Many THEN ShortSeparatorSlot(n)
  ELSE (Count(n) - 1) \div 2

\* Variant: the truncated separator is cut from the left key.
SeparatorOfLeft(n, slot) ==
  LET common == CommonPrefix(n, slot, slot + 1)
      truncated == /\ n.leaf /\ slot + 1 < Count(n)
                   /\ Len(Slot(n, slot).key) > common /\ Len(Slot(n, slot + 1).key) > common + 1
  IN IF truncated THEN SubSeq(FullKey(n, slot), 1, PrefixLen(n) + common + 1)
     ELSE FullKey(n, slot)
\* getSep of findSeparator.
Separator(n, slot) ==
  LET common == CommonPrefix(n, slot, slot + 1)
      truncated == /\ n.leaf /\ slot + 1 < Count(n)
                   /\ Len(Slot(n, slot).key) > common /\ Len(Slot(n, slot + 1).key) > common + 1
  IN IF truncated THEN SubSeq(FullKey(n, slot + 1), 1, PrefixLen(n) + common + 1)
     ELSE FullKey(n, slot)

\* splitNode: page p keeps the left half, page new gets the right one.
LeftHalf(n, slot, new) ==
  LET left == Fresh(n.leaf, n.lower, Separator(n, slot)) IN
  MakeHint(IF n.leaf THEN [CopyRange(left, n, 0, slot) EXCEPT !.link = new]
           ELSE [CopyRange(left, n, 0, slot - 1) EXCEPT !.link = Slot(n, slot).pay])
RightHalf(n, slot) ==
  LET right == Fresh(n.leaf, Separator(n, slot), n.upper) IN
  MakeHint([CopyRange(right, n, slot + 1, Count(n) - 1) EXCEPT !.link = n.link])

\* The slot of page p becomes the right half's; a slot for the left half goes before it.
ParentOfHalves(parent, sep, p, new) ==
  LET pos == LowerBound(parent, sep)[1]
      moved == IF pos = Count(parent) THEN [parent EXCEPT !.link = new]
               ELSE [parent EXCEPT !.slots[pos + 1].pay = new]
  IN InsertInPage(moved, sep, p)

-------------------------------------------------------------------------------
(* The tree, as insert and remove of btree.cpp use its pages. *)

Init == /\ nodes = [p \in Pages |-> Fresh(TRUE, <<>>, <<>>)]
        /\ root = 1 /\ made = 1 /\ stored = {} /\ removals = 0

\* The pages a descent passes.
Path(k) == LET Down[p \in Pages] == IF nodes[p].leaf THEN <<p>>
                                    ELSE <<p>> \o Down[LookupInner(nodes[p], k)]
           IN Down[root]
LeafOf(k) == nodes[Last(Path(k))]

InsertKey(k) == /\ k \notin stored /\ HasSpaceFor(LeafOf(k), Len(k))
                /\ nodes' = [nodes EXCEPT ![Last(Path(k))] = InsertInPage(@, k, NoPage)]
                /\ stored' = stored \cup {k}
                /\ UNCHANGED <<root, made, removals>>

\* trySplit: of the pages on the path, the last one whose parent has space for the
\* separator, or the root.
SplitOne(path, ordered) ==
  LET Sep(i) == Separator(nodes[path[i]], SplitSlot(nodes[path[i]], ordered))
      Upward[i \in 1..Len(path)] ==
        IF i = 1 \/ HasSpaceFor(nodes[path[i - 1]], Len(Sep(i))) THEN i ELSE Upward[i - 1]
      at == Upward[Len(path)]
      p == path[at]
      new == made + 1
      slot == SplitSlot(nodes[p], ordered)
      above == IF at = 1 THEN made + 2 ELSE path[at - 1]
      parent == IF at = 1 THEN [Fresh(FALSE, <<>>, <<>>) EXCEPT !.link = p] ELSE nodes[above]
  IN /\ made' = IF at = 1 THEN made + 2 ELSE made + 1
     /\ root' = IF at = 1 THEN above ELSE root
     /\ nodes' = [nodes EXCEPT ![p] = LeftHalf(@, slot, new),
                               ![new] = RightHalf(nodes[p], slot),
                               ![above] = ParentOfHalves(parent, Sep(at), p, new)]

Split(k) == /\ k \notin stored /\ ~HasSpaceFor(LeafOf(k), Len(k)) /\ made + 2 <= MaxPages
            /\ \E ordered \in BOOLEAN : SplitOne(Path(k), ordered)
            /\ UNCHANGED <<stored, removals>>

\* mergeNodes: what the merged leaf would be, and an upper bound of its size.
Merged(left, right) ==
  MakeHint([CopyAll(CopyAll(Fresh(TRUE, left.lower, right.upper), left), right) EXCEPT !.link = right.link])
MergedBound(left, right) ==
  LET prefix == SharedLen(left.lower, right.upper)
  IN left.used + right.used + SlotSize * (Count(left) + Count(right))
       + (PrefixLen(left) - prefix) * Count(left) + (PrefixLen(right) - prefix) * Count(right)

RemoveKey(k) ==
  LET path == Path(k)
      p == Last(path)
      at == LowerBound(nodes[p], k)[1]
      left == RemoveSlot(nodes[p], at)
      above == path[Len(path) - 1]
      pos == LowerBound(nodes[above], k)[1]
      next == Slot(nodes[above], pos + 1).pay
      underfull == /\ FreeAfter(nodes[p]) + EntrySize(nodes[p], at) >= UnderFull
                   /\ Len(path) > 1 /\ Count(nodes[above]) >= 2 /\ pos + 1 < Count(nodes[above])
      merges == /\ FreeAfter(nodes[next]) >= PageSize - UnderFull
                /\ MergedBound(left, nodes[next]) <= PageSize
  IN /\ k \in stored /\ stored' = stored \ {k}
     /\ removals < MaxRemovals /\ removals' = removals + 1
     /\ nodes' = IF underfull /\ merges
                   THEN [nodes EXCEPT ![p] = Merged(left, nodes[next]),
                                      ![above] = RemoveSlot([@ EXCEPT !.slots[pos + 2].pay = p], pos)]
                   ELSE [nodes EXCEPT ![p] = left]
     /\ UNCHANGED <<root, made>>

Next == \E k \in Keys : InsertKey(k) \/ Split(k) \/ RemoveKey(k)

Spec == Init /\ [][Next]_vars

-------------------------------------------------------------------------------
(* A lower-bound search, with hints and heads, of any page and any key that     *)
(* descends to it returns the first slot whose key is not less, and says        *)
(* whether it is the key.                                                       *)
LowerBoundRight ==
  \A k \in Keys : \A p \in ToSet(Path(k)) :
    LET n == nodes[p]
        below == {i \in 0..(Count(n) - 1) : Less(FullKey(n, i), k)}
    IN LowerBound(n, k) = <<Cardinality(below), \E i \in 0..(Count(n) - 1) : FullKey(n, i) = k>>

(* The page counts the bytes of its fences and entries exactly, its heap never  *)
(* grows into its slots, and compacting it gives all the space that             *)
(* freeSpaceAfterCompaction promised (the assertion in compactify).             *)
SpaceAccounting ==
  \A p \in 1..made :
    LET n == nodes[p]
    IN /\ n.used = Len(n.lower) + Len(n.upper) + SizeOf(n.slots, PayLen(n))
       /\ FreeSpace(n) >= 0
       /\ FreeSpace(Compactified(n)) = FreeAfter(n)

\* The separator of two keys is the whole left one if the right one ends at the byte in
\* which they differ; the half that keeps it as a fence has room for it if it is not much
\* longer than the right one.
ShortCopy(j, k) == SharedLen(j, k) < Len(j) /\ Len(k) = SharedLen(j, k) + 1
                     => Len(j) <= Len(k) + ValueLen + SlotSize
ShortCopies == \A j, k \in Keys : Less(j, k) => ShortCopy(j, k)

(* Whatever splits, truncated separators and merges have done, the leaf of a    *)
(* key has it exactly if it was inserted and not removed, and the leaf's fences *)
(* enclose it and every key of the leaf.                                        *)
KeysKept ==
  \A k \in Keys :
    LET n == LeafOf(k)
        Between(key) == /\ n.lower = <<>> \/ Less(n.lower, key)
                        /\ n.upper = <<>> \/ ~Less(n.upper, key)
    IN /\ k \in stored <=> \E i \in 0..(Count(n) - 1) : FullKey(n, i) = k
       /\ Between(k) /\ \A i \in 0..(Count(n) - 1) : Between(FullKey(n, i))
===============================================================================
