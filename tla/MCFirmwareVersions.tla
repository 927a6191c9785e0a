-------------------------- MODULE MCFirmwareVersions ------------------------
(***************************************************************************)
(* TLC instances of FirmwareVersions.                                      *)
(***************************************************************************)
EXTENDS FirmwareVersions

V(core, pre, build) ==
  [major |-> core[1], minor |-> core[2], patch |-> core[3],
   pre |-> pre, build |-> build, spelling |-> 0]
Padded(v) == [v EXCEPT !.spelling = 1]

A == <<97>>                     \* the identifier "a"
AB == <<97, 98>>
One == <<49>>
Two == <<50>>
Ten == <<49, 48>>

\* 1.0.0-a.2, 01.0.0-ab, 1.0.0, 1.0.0+7, 2.1.0-1
MCVersions ==
  {Padded(V(<<1, 0, 0>>, <<AB>>, 0)),
   V(<<1, 0, 0>>, <<A, Two>>, 0), V(<<1, 0, 0>>, << >>, 0),
   V(<<1, 0, 0>>, << >>, 7), V(<<2, 1, 0>>, <<One>>, 0)}
\* 1.0.0-a.2, 1.0.0-a.10, 1.0.0
MCNumbered ==
  {V(<<1, 0, 0>>, <<A, Two>>, 0), V(<<1, 0, 0>>, <<A, Ten>>, 0),
   V(<<1, 0, 0>>, << >>, 0)}
=============================================================================
