---------------------------- MODULE MCSequential ----------------------------
(* The sequential parts, each in the run by itself: part says which one moves. *)
EXTENDS SkipList, RecordShaper, Service

VARIABLE part

\* Targets, sizes and ranges that are reversed, too large, too small, weighted or no
\* numbers; a scheme that pads the auth packet up to the cap and beyond; and single
\* lengths, within the cap, above it, and the first that overflows the packet's buffer.
Odd == [pad_targets |-> <<Part(<<50, 20>>), Part(<<0>>), Part(<<70000>>), Bucket(30, 33, 2)>>,
        headers_target |-> <<Part(<<100>>)>>,
        idle_sizes |-> <<Part(<<5>>), Part(<<Junk>>), Bucket(9, 9, 1), Part(<<90000>>)>>,
        idle_interval |-> <<Part(<<40, 20>>)>>]
Wide == [pad_dist |-> <<Bucket(1500, 900, 1), Bucket(7, 7, 0), Bucket(40, 40, 3)>>,
         headers_target |-> <<Part(<<80000, 300>>)>>,
         idle_sizes |-> <<Part(<<30>>)>>]
Fixed == [pad_dist |-> <<Bucket(1400, 1400, 1), Bucket(16351, 16351, 2)>>]
Empty == [x \in {} |-> <<>>]

ShaperSchemes == {Odd, Wide, Empty}
AuthSchemes == {Odd, Wide, Fixed, Empty}

Init == part \in {"list", "wire", "auth"} /\ SkipInit /\ ShaperInit /\ ServiceInit
Next ==
    \/ part = "list" /\ SkipNext /\ UNCHANGED <<shaperVars, serviceVars, part>>
    \/ part = "wire" /\ ShaperNext /\ UNCHANGED <<skipVars, serviceVars, part>>
    \/ part = "auth" /\ ServiceNext /\ UNCHANGED <<skipVars, shaperVars, part>>
Spec == Init /\ [][Next]_<<skipVars, shaperVars, serviceVars, part>>
=============================================================================
