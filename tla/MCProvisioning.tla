--------------------------- MODULE MCProvisioning ----------------------------
(* Instance of Provisioning for TLC: two users whose names collide, and one *)
(* who asks twice, through two service processes.                           *)
EXTENDS Provisioning

Empty == [n \in Names |-> None]
With(n, value) == [Empty EXCEPT ![n] = value]
NoGroups == [n \in Names |-> NoId]
Group(n, id) == [NoGroups EXCEPT ![n] = id]

UserOfMC == [r \in Requests |-> IF r = "r3" THEN "v" ELSE "u"]
ProcessOfMC == [r \in Requests |-> IF r = "r1" THEN "p" ELSE "q"]
BaseNameMC == [u \in Users |-> "n"]
SuffixedMC == [u \in Users |-> IF u = "u" THEN <<"nu", "nx">> ELSE <<"nv", "nx">>]

(* A bare image; one that has the account of a user from before the         *)
(* registry; one with a system account, and one with a group, of that name. *)
ImagesMC == {
    [accounts |-> Empty, groups |-> NoGroups],
    [accounts |-> With("n", [uid |-> 2, gid |-> 2, managed |-> TRUE]),
     groups |-> Group("n", 2)],
    [accounts |-> With("n", [uid |-> 1, gid |-> 1, managed |-> FALSE]),
     groups |-> Group("n", 1)],
    [accounts |-> Empty, groups |-> Group("n", 1)]}

(* No home; or two, of an earlier user each.  The first has files with      *)
(* several links, and becomes the user's again in one of the images only;   *)
(* the second waits under the suffixed name of another user.                *)
Home(id, linked) ==
    [uid |-> id, gid |-> id, mode |-> TRUE, deep |-> TRUE, linked |-> linked]
OldHomesMC == {Empty, [With("n", Home(2, {2})) EXCEPT !["nv"] = Home(3, {})]}
=============================================================================
