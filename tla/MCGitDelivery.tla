--------------------------- MODULE MCGitDelivery ---------------------------
(* Instances of GitDelivery for TLC.                                       *)
EXTENDS GitDelivery

CONSTANTS a, b, v1, v2

Config(x, y) == [s \in Servers |-> IF s = a THEN x ELSE y]
Base == [jar |-> v1, manifest |-> v1, config |-> Config(v1, v1)]

\* One commit may change the jars, the manifest or a config file, break the
\* manifest, delete a config file, or several of these.
FewTrees ==
    {Base,
     [Base EXCEPT !.manifest = v2],
     [Base EXCEPT !.jar = v2, !.manifest = Broken],
     [Base EXCEPT !.config = Config(Absent, v2)],
     [Base EXCEPT !.jar = v2, !.config = Config(v2, v1)]}
=============================================================================
