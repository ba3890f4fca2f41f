--------------------------- MODULE StreamClusters ---------------------------
(***************************************************************************)
(* How the charges of one merchant (an amount amt and a descriptor desc    *)
(* that may be blank: Nil), in the order of their dates, are told apart    *)
(* into streams.                                                           *)
(***************************************************************************)
EXTENDS Integers, Sequences, FiniteSets, Samples

CONSTANT Nil

\* An amount is near the median of a cluster (both doubled): 1, or 12 in 100, or 25
\* in 100 of it when the descriptor is the cluster's.
AmountMatches(amount2, centre2, sameDescriptor) ==
    100 * Apart(amount2, centre2)
        <= Larger(200, (IF sameDescriptor THEN 25 ELSE 12) * centre2)

Centre2(members) == Median2Of(LAMBDA c : c.amt, members)

Compatible(charge, cluster) ==
    charge.desc = Nil \/ cluster.desc = Nil \/ charge.desc = cluster.desc

\* The clusters a charge may join; of those it joins the nearest, the first of them.
Near(charge, clusters) ==
    {k \in DOMAIN clusters :
        /\ Compatible(charge, clusters[k])
        /\ AmountMatches(2 * charge.amt, Centre2(clusters[k].members),
                         charge.desc # Nil /\ charge.desc = clusters[k].desc)}

Nearest(charge, clusters) ==
    LET distance(k) == Apart(2 * charge.amt, Centre2(clusters[k].members))
    IN CHOOSE k \in Near(charge, clusters) :
        \A j \in Near(charge, clusters) \ {k} :
            distance(k) < distance(j) \/ (distance(k) = distance(j) /\ k < j)

\* A charge joins a cluster, whose blank descriptor it may fill in, or starts one.
Placed(charge, clusters) ==
    IF Near(charge, clusters) = {}
    THEN Append(clusters, [desc |-> charge.desc, seed |-> charge.amt, members |-> <<charge>>])
    ELSE [clusters EXCEPT ![Nearest(charge, clusters)] =
            [@ EXCEPT !.members = Append(@, charge),
                      !.desc = IF @ = Nil THEN charge.desc ELSE @]]

Clusters(charges) ==
    LET placed[n \in 0..Len(charges)] == IF n = 0 THEN <<>> ELSE Placed(charges[n], placed[n - 1])
    IN placed[Len(charges)]

\* A stream is named for its descriptor, and for its first amount when that is
\* not enough.
StreamKey(cluster, clusters) ==
    LET alike == {k \in DOMAIN clusters : clusters[k].desc = cluster.desc}
    IN CASE cluster.desc # Nil -> <<cluster.desc, IF Cardinality(alike) = 1 THEN Nil ELSE cluster.seed>>
         [] OTHER -> <<Nil, IF Len(clusters) = 1 THEN Nil ELSE cluster.seed>>

=============================================================================
