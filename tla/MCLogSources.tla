---------------------------- MODULE MCLogSources ----------------------------
(* Values for the parameters of LogSources. *)
EXTENDS LogSources

J_(l, m, p) == [line |-> l, message |-> m, program |-> p]
E_(x, p, i) == [xml |-> x, provider |-> p, id |-> i]

SomeEntries == {J_("json", "some", "sshd"), J_("json", "some", "cron"), J_("bad", "some", "sshd")}
SomeEvents == {E_("fine", "auth", 4624), E_("fine", "auth", 70271), E_("none", "auth", 1)}
FewEntries == {J_("json", "some", "sshd"), J_("bad", "some", "sshd")}
FewEvents == {E_("fine", "auth", 4624), E_("none", "auth", 1)}
Audit == {<<4600, 4800>>}
Noise == {<<4735, 4735>>}
Busy == [c \in Channel |-> IF c = "System" THEN 2 ELSE 0]
=============================================================================
