------------------------------ MODULE MCFAT32 ------------------------------
\* Values of the constants of FAT32 for TLC: a file of the delivered volume
\* with an extension, a long name, a directory with a file, and a name without
\* a dot of nine letters.
EXTENDS FAT32, TLC

Short(stem, rest, ext) == <<stem, rest, ext>>
old == Short("old", "", ".t")
d == Short("d", "", "")
a == Short("a", "", "")
nine == Short("abcdefgh", "i", "")

MCShortNames == {old, d, a, nine}
MCOld == <<old>>
MCPaths == {MCOld, <<<<"l", "m">>>>, <<d>>, <<d, a>>, <<nine>>}
=============================================================================
