----------------------------- MODULE MCShowApp ------------------------------
(***************************************************************************)
(* Metafiles for ShowApp: one of v1 with three piece hashes; one of v2     *)
(* whose file tree goes down, up and down again; one with an empty file    *)
(* after a directory; one of small files only, whose piece layers are      *)
(* empty; one without piece layers and with an empty file; a hybrid one;   *)
(* and checksums of every file, of some files and of none.                 *)
(***************************************************************************)
EXTENDS ShowApp, TLC

MCAlgorithms == {1, 2}

Files(paths, pads, sums) ==
    [i \in DOMAIN paths |->
        [path |-> paths[i], pad |-> i \in pads, checksums |-> sums[i]]]

Lists(n) == [f \in ListFields |-> IF f = "dht-nodes" THEN n + 1 ELSE n]

NoLayers == <<>>

Meta(protocol, pieces, layered, layers, roots, fs, trackers, n) ==
    [protocol |-> protocol, pieces |-> pieces, layered |-> layered, layers |-> layers,
     roots |-> roots,
     files |-> fs, trackers |-> trackers, lists |-> Lists(n)]

MCMetafiles ==
    {Meta("v1", 3, FALSE, NoLayers, <<>>,
          Files(<<<<1>>, <<2>>>>, {}, <<{1, 2}, {1}>>), <<<<"a", "b">>, <<"c">>>>, 1),
     Meta("v2", 0, TRUE, 7 :> 2 @@ 8 :> 1,
          <<1, 1>> :> 7 @@ <<1, 2, 1>> :> 8 @@ <<1, 3>> :> 9 @@ <<2, 1>> :> 6,
          Files(<<<<1, 1>>, <<1, 2, 1>>, <<1, 3>>, <<2, 1>>>>, {}, <<{}, {}, {}, {}>>),
          <<<<"a">>>>, 0),
     Meta("v2", 0, TRUE, NoLayers, <<1>> :> 5,
          Files(<<<<1>>>>, {}, <<{2}>>), <<>>, 0),
     Meta("v2", 0, FALSE, NoLayers, <<1, 1>> :> 7 @@ <<2>> :> 0,
          Files(<<<<1, 1>>, <<2>>>>, {}, <<{1}, {}>>), <<>>, 1),
     Meta("v2", 0, TRUE, 7 :> 3, <<1, 1>> :> 7 @@ <<2>> :> 0,
          Files(<<<<1, 1>>, <<2>>>>, {}, <<{2}, {2}>>), <<>>, 2),
     Meta("hybrid", 2, TRUE, 5 :> 3, <<3>> :> 5 @@ <<4, 4, 4>> :> 6,
          Files(<<<<3>>, <<0, 1>>, <<4, 4, 4>>>>, {2}, <<{1}, {}, {1}>>),
          <<<<"a">>, <<"b", "c">>>>, 1)}
=============================================================================
