------------------------------ MODULE MCMount ------------------------------
(* An instance of Mount: a volume above both backing directories, ephemeral *)
(* paths around and inside persistent ones, and a persistent path inside    *)
(* another.                                                                 *)
EXTENDS Mount

MCVolumes         == {<<Run, <<"elemental">>>>}
MCPersistentDir   == <<Run, <<"elemental">>, <<"persistent">>>>
MCEphemeralPaths  == {<<<<"etc">>>>, <<<<"etc">>, <<"ssh">>, <<"tmp">>>>}
MCPersistentPaths == {<<<<"etc">>, <<"ssh">>>>, <<<<"etc">>, <<"ssh">>, <<"keys">>>>}

Full(etype, pmode) == [pmode |-> pmode, etype |-> etype, writeFstab |-> TRUE, selinux |-> TRUE]
MCSpecs == {Full("tmpfs", "overlay"), Full("tmpfs", "bind"), [Full("block", "bind") EXCEPT !.selinux = FALSE],
            [Full("block", "overlay") EXCEPT !.selinux = FALSE],
            [pmode |-> "bind", etype |-> "tmpfs", writeFstab |-> FALSE, selinux |-> FALSE]}
=============================================================================
