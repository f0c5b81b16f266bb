------------------------------- MODULE MCFAT -------------------------------
(***************************************************************************)
(* An instance of FAT for TLC.  A sector has four bytes, two directory     *)
(* entries, or two links; a cluster has three sectors.  The volume:        *)
(*                                                                         *)
(*   v       the volume's label                                            *)
(*   /ab     a file of 14 bytes in the clusters 3 and 7                    *)
(*   /d      a directory in the clusters 4 and 5, of which the second      *)
(*           holds z                                                       *)
(*   /d/x.y  a file with an extension of one character                     *)
(*   /e      a directory in cluster 6, with ab, empty, and m.nn            *)
(*   /k.cc   an archived file with an extension                            *)
(***************************************************************************)
EXTENDS FAT

Entry(b, x, k, a, c, s) ==
  [base |-> b, ext |-> x, kind |-> k, archive |-> a, cluster |-> c, size |-> s]
End == Entry(<<>>, <<>>, "end", FALSE, 0, 0)
Dot == Entry(<<".">>, <<>>, "dot", FALSE, 0, 0)
Long == Entry(<<"l">>, <<>>, "long", FALSE, 0, 0)

ZeroBpb == [bytesPerSector |-> 0, sectorsPerCluster |-> 0, reservedSectors |-> 0,
            fatCopies |-> 0, fatSize |-> 0, rootDirectoryEntries |-> 0, rootCluster |-> 0]

BlankSector == [startLba |-> 0, bpb |-> ZeroBpb, nexts |-> <<0, 0>>,
                entries |-> <<End, End>>, data |-> <<0, 0, 0, 0>>]

(* Words nobody put there: links back to the root, a directory that leads  *)
(* to it, the volume's own parameters.                                     *)
NoiseSector == [startLba |-> 1, bpb |-> ZeroBpb, nexts |-> <<2, 9>>,
                entries |-> <<Entry(<<"a", "b">>, <<>>, "dir", FALSE, 2, 1), Long>>,
                data |-> <<9, 9, 9, 9>>]

VolumeBpb == [bytesPerSector |-> 4, sectorsPerCluster |-> 3, reservedSectors |-> 1,
              fatCopies |-> 2, fatSize |-> 5, rootDirectoryEntries |-> 0, rootCluster |-> 2]

(* Some links have bits set that are no part of them. *)
Links == <<0, 0, 31, 39, 5, 15, 15, 15, 63, 0>>
Fat(k) == [BlankSector EXCEPT !.nexts = <<Links[2 * k + 1], Links[2 * k + 2]>>]
Dirs(a, b) == [BlankSector EXCEPT !.entries = <<a, b>>]
Bytes4(a, b, c, d) == [BlankSector EXCEPT !.data = <<a, b, c, d>>]

(* Cluster c starts at sector 12 + 3 * (c - 2). *)
DiskImage == [s \in 0 .. 6 \cup 12 .. 32 |->
  CASE s = 0 -> [BlankSector EXCEPT !.startLba = 1]
    [] s = 1 -> [BlankSector EXCEPT !.bpb = VolumeBpb]
    [] s \in 2 .. 6 -> Fat(s - 2)
    [] s = 12 -> Dirs(Entry(<<"v">>, <<>>, "label", FALSE, 0, 0), Entry(<<"a", "b">>, <<>>, "file", TRUE, 3, 14))
    [] s = 13 -> Dirs(Entry(<<"d">>, <<>>, "dir", FALSE, 4, 0), Entry(<<"e">>, <<>>, "dir", FALSE, 6, 0))
    [] s = 14 -> Dirs(Entry(<<"k">>, <<"c", "c">>, "file", TRUE, 8, 4), End)
    [] s \in 15 .. 17 -> Bytes4(s, 2, 3, 4)
    [] s \in {18, 24} -> Dirs(Dot, Dot)
    [] s = 19 -> Dirs(Long, Entry(<<"x">>, <<"y">>, "file", FALSE, 8, 4))
    [] s = 20 -> Dirs(Long, Long)
    [] s = 21 -> Dirs(Entry(<<"z">>, <<>>, "file", FALSE, 8, 4), End)
    [] s = 25 -> Dirs(Entry(<<"a", "b">>, <<>>, "file", FALSE, 0, 0), Long)
    [] s = 26 -> Dirs(Long, Entry(<<"m">>, <<"n", "n">>, "file", FALSE, 8, 4))
    [] s = 27 -> Bytes4(5, 6, 7, 8)
    [] s = 30 -> Bytes4(1, 3, 5, 7)
    [] OTHER -> BlankSector]

Rubbish == {BlankSector, NoiseSector}

Letters == {"a", "b", "c", "d", "e", "k", "l", "m", "n", "v", "x", "y", "z", "."}

Query(op, path) == [op |-> op, path |-> path, size |-> -1]
Part(path, n) == [op |-> "readFile", path |-> path, size |-> n]

ab == <<"a", "b">>
d == <<"d">>
e == <<"e">>
mnn == <<"m", ".", "n", "n">>

CallSet ==
  { Query("getFileSize", <<ab>>), Query("readFile", <<ab>>), Part(<<ab>>, 3), Part(<<ab>>, 27),
    Query("directoryExists", <<e>>), Query("fileExists", <<e>>), Query("readFile", <<e>>),
    Query("fileExists", <<e, mnn>>), Query("readFile", <<e, mnn>>), Query("readFile", <<e, ab>>),
    Query("fileExists", <<e, d>>), Query("getFileSize", <<e, ab, ab>>),
    Query("fileExists", <<d, <<"z">>>>), Query("fileExists", <<d, <<"x", ".", "y">>>>),
    Query("fileExists", <<<<"k", ".", "c", "c">>>>), Query("directoryExists", <<<<>>>>), Query("fileExists", <<<<"v">>>>) }

=============================================================================
