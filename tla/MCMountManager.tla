---------------------------- MODULE MCMountManager ----------------------------
(***************************************************************************)
(* Paths over one letter for the model checker: a mount point, a name that *)
(* extends it, a file below it, "..", "." and relative paths.              *)
(***************************************************************************)
EXTENDS MountManager

M == <<"m">>
DotDot == <<".", ".">>

MCMountPaths == {<<>>, Slash, Slash \o M, Slash \o M \o M}

MCCallPaths == {Slash, M, DotDot, Slash \o M, Slash \o M \o M,
                Slash \o M \o Slash \o M, DotDot \o Slash \o M}

MCStrings == SeqOf({"/", ".", "m"}, 4) \cup MCCallPaths
                \cup {Slash \o M \o SlashDotDot \o Slash \o M,
                      M \o SlashDotDot \o SlashDotDot}
===============================================================================
