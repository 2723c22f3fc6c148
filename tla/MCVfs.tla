-------------------------------- MODULE MCVfs --------------------------------
(* A small disk: /bin in two clusters, with a long name in two pieces, one  *)
(* whose file is deleted and one that ends a cluster, and files of one to   *)
(* three clusters of two bytes.                                             *)
EXTENDS Vfs

CONSTANTS p1, p2, out, err, dev, kbd, proc, bin, sh, Shell, readme,
          piece, ghost, tool, longtool, nosuch, x

MCEntry(kind, short, cluster, size) ==
    [kind |-> kind, short |-> short, long |-> NoName, cluster |-> cluster, size |-> size]
LongName(name) == [NoEntry EXCEPT !.kind = "long", !.long = name]
Deleted == [NoEntry EXCEPT !.kind = "deleted"]

\* Clusters 1 (root), 2 and 3 (/bin), 4 to 6 (sh, five bytes), 7 (tool),
\* 8 (readme, one byte).
MCNext == <<0, 3, 0, 5, 6, 0, 0, 0>>
MCEntries == 1 :> << MCEntry("dir", bin, 2, 0) >>
          @@ 2 :> << LongName(piece), LongName(Shell), MCEntry("file", sh, 4, 5), LongName(ghost), Deleted,
                   MCEntry("file", readme, 8, 1), LongName(longtool) >>
          @@ 3 :> << MCEntry("file", tool, 7, 2) >>
MCContent == 4 :> <<1, 2>> @@ 5 :> <<3, 4>> @@ 6 :> <<5, 6>> @@ 7 :> <<7, 8>> @@ 8 :> <<9, 0>>

MCStreamOrder == <<out, err>>
MCPidName == <<p1, p2>>
MCDevices == <<kbd>>
MCPaths == { <<proc, p1, out>>, <<bin, Shell>>, <<bin, sh, x>>, <<nosuch, dev, x>>, <<nosuch, x>> }
MCSearches == { <<bin, sh>>, <<bin, tool>>, <<bin, readme>>, <<dev, kbd>>, <<proc, p2, err>> }
MCLinks == { << <<proc, p1, out>>, <<dev, kbd>> >> }
MCPipes == { <<nosuch, x>> }
MCExecs == { <<bin, sh>> }
=============================================================================
