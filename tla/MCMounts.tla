------------------------------ MODULE MCMounts ------------------------------
(* An instance of Mounts for TLC: two servers, one of them known, and two    *)
(* mount points, of which one begins with the name of the other.             *)
EXTENDS Mounts

PathWithin(path, with) == path = with \/ (path = "/u2" /\ with = "/u")
Entry(h, path, o) == [live |-> TRUE, host |-> h, from |-> path, at |-> path, opts |-> o]
Dead(l) == [l EXCEPT !.live = FALSE]
ByHand == Entry("t", "/v", "rw")

Server(h, path) == [host |-> h, from |-> path, at |-> path, opts |-> "ro", misc |-> FALSE]
Misc(h, path) == [Server(h, path) EXCEPT !.misc = TRUE]
Off(h, path, keep) == [host |-> h, at |-> path, rmdir |-> TRUE, fstab |-> ~keep,
                       cleaner |-> FALSE]
Need(paths) == [paths |-> paths, var |-> Len(paths) > 1, freespace |-> FALSE, force |-> FALSE]

On(h, path) == [host |-> h, at |-> path]
\* What fstab says, and what is mounted at the outset.
Tables ==
    {<< <<>>, <<>> >>}
    \cup {<<Entry("s", "/u", "ro")>>, <<Entry("s", "/u", "rw"), Entry("t", "/v", "ro")>>,
     <<Dead(Entry("s", "/u", "rw")), Entry("t", "/u", "ro")>>} \X {<<>>, <<On("s", "/u")>>}
    \cup {<<Entry("s", "/u2", "ro"), Entry("s", "/u", "ro")>>} \X {<<On("s", "/u2"), On("s", "/u")>>}
    \cup {<<Entry("t", "/u", "ro")>>} \X {<<On("t", "/u"), On("s", "/u")>>}
Additions == {<<>>, <<Server("s", "/u")>>, <<Server("me", "/u")>>,
              <<Server("t", "/u2"), Server("s", "/u")>>,
              <<Server("s", "/u2"), Misc("t", "/u")>>}
Removals == {<<>>, <<Off("s", "/u2", FALSE)>>, <<Off("s", "/u", FALSE), Off("s", "/u2", TRUE)>>,
             <<Off("t", "/u", FALSE)>>, <<Off("s", "/", FALSE)>>}
Needs == {Need(<<"/u">>), Need(<<"/v", "/u2">>), [Need(<<"/u">>) EXCEPT !.freespace = TRUE]}
Sequences == {<<"mountinfo", "addmounts", "mountall", "unmount">>,
              <<"unmount", "mountinfo", "addmounts", "mountall", "required">>,
              <<"mountinfo", "unmount", "required">>}
Host(a, r, q, t) ==
    [mountables |-> a, unmounts |-> r, required |-> Needs, full |-> {"/u"}, sequence |-> q,
     fstab |-> t[1], mounted |-> t[2],
     dirs |-> {"/"} \cup {t[2][n].at : n \in DOMAIN t[2]}]
Settled == Host(<<>>, <<>>, <<"mountinfo", "unmount", "required">>, <<<<>>, <<>>>>)
Hosts == {Host(a, r, q, t) : a \in Additions, r \in Removals, q \in Sequences, t \in Tables}
=============================================================================
