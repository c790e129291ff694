-------------------------------- MODULE MCVFS --------------------------------
\* Values of the constants of VFS for TLC: paths of the volume, of /tmp and of
\* /dev, some with sections that do not count.
EXTENDS VFS, TLC

Abs(names) == [abs |-> TRUE, names |-> names]
Rel(names) == [abs |-> FALSE, names |-> names]

MCInputs == {Abs(<<"VFS", "FAT32", "d">>), Abs(<<"tmp", "t">>),
             Abs(<<"..", "tmp", "..", "dev", "", "null">>), Rel(<<"a">>),
             Rel(<<".", "d", "..", "..", "FAT32", "d", "a">>)}
MCDirs == {Abs(<<"VFS", "FAT32", "d">>), Rel(<<"a">>)}
MCMistaken == {<<"nulx", "null">>}
=============================================================================
