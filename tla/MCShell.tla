------------------------------ MODULE MCShell -------------------------------
(***************************************************************************)
(* Characters are model values; "root" and "shell" are one character each, *)
(* and typed names are one or two characters.                              *)
(***************************************************************************)
EXTENDS Shell, TLC

CONSTANTS ch_r, ch_s, ch_a, ch_b, ch_x, ch_dot

MCRoot  == <<ch_r>>
MCShellName == <<ch_s>>
MCNone  == <<>>
MCNames == {<<ch_r>>, <<ch_s>>, <<ch_a>>, <<ch_b>>}
MCTyped == {<<ch_a>>, <<ch_b>>, <<ch_a, ch_dot, ch_x>>}
MCExts  == {<<>>, <<ch_x>>}
MCLongNames == MCNames \cup {<<ch_a, ch_b>>}
MCLongTyped == {<<ch_a>>, <<ch_a, ch_b>>}
=============================================================================
