----------------------------- MODULE MCBTreeNode -----------------------------
(* BTreeNode with short keys over the bytes 0 and 1 on small pages.             *)
EXTENDS BTreeNode

\* Keys that are prefixes of each other, share heads and differ behind them.
SomeKeys == {<<0>>, <<0, 0>>, <<0, 1>>, <<0, 1, 1>>, <<1>>, <<1, 0>>, <<1, 0, 1>>, <<1, 1, 1>>}

\* What the proof of SpaceAccounting asks of the keys.
ASSUME CopiesAssumption == ShortCopies
==============================================================================
