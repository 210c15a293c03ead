---------------------------- MODULE MCCollectors ----------------------------
(* Values for the parameters of Collectors. *)
EXTENDS Collectors

E_(d, p) == [device |-> d, point |-> p, fs |-> "nfs"]
Share == E_("server", "/mnt")
Bind == E_("server", "/srv/mnt")
Stacked == E_("other", "/mnt")
Proc == [device |-> "proc", point |-> "/proc", fs |-> "proc"]

SomeEntries == {Share, Bind, Stacked, Proc}
Lengths == [p \in {"/mnt", "/srv/mnt", "/proc"} |->
                CASE p = "/mnt" -> 4 [] p = "/proc" -> 5 [] p = "/srv/mnt" -> 8]

Host(on, i, ds, es, f, r) ==
    [on |-> on, interval |-> i, devices |-> ds, entries |-> es, failures |-> f, reinits |-> r]
SomeHosts ==
    {Host({"disk"}, 1, {}, {Share, Bind}, 0, 0),
     Host({"disk"}, 1, {}, {Share, Stacked}, 0, 0),
     Host({"disk"}, 1, {}, {Share}, 1, 1),
     Host({"disk"}, 1, {}, {Proc}, 0, 0),
     Host({"disk"}, 1, {"sda"}, {}, 0, 0),
     Host({"network"}, 2, {"eth0"}, {}, 0, 1),
     Host({"mac_network"}, 1, {"en0"}, {}, 1, 1),
     Host({"containers"}, 2, {"box"}, {}, 1, 0),
     Host({"cgroups", "processes"}, 2, {"pid"}, {}, 0, 0),
     Host({"cgroups"}, 2, {"own"}, {}, 0, 0),
     Host({"cpu"}, 0, {}, {}, 0, 0),
     Host({}, 1, {}, {}, 0, 1)}
=============================================================================
