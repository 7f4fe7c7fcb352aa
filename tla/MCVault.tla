------------------------------ MODULE MCVault ------------------------------
(* Small instances of Vault for TLC. *)
EXTENDS Vault
CONSTANTS v1, v2, l1, l2, w1, w2, p1

MCClient == {Poller} \cup Writer
MCNote   == {QueueNote, CompletedNote, TopicNote} \cup {DigestNote(v) : v \in Video}
MCOwned  == {Section(v) : v \in Video} \cup {Alias(v) : v \in Video}
MCSeeds  == {Title(v) : v \in Video}
MCItem   == MCOwned \cup MCSeeds \cup {Placeholder}
            \cup {Url(l) : l \in Line} \cup {Prose(p) : p \in Person}
            \cup {Link(v) : v \in Video} \cup {Body(v) : v \in Video}
MCVideosOf == [l \in Line |-> Video]
=============================================================================
