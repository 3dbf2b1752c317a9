------------------------------ MODULE MCRelay -------------------------------
EXTENDS Relay
CONSTANTS ann, bob, sue, pat, h1, h2

People == {ann, bob, sue, pat}
Handlers == {h1, h2}
Memberships == (ann :> "ADMIN") @@ (bob :> "ADMIN") @@ (sue :> "SUBSCRIBER") @@ (pat :> "NONE")
Invites == {<<sue, pat>>}
Carers == {bob}

\* Messages: their keywords, and what follows.
Says(command) == {[command |-> command, language |-> "EN", length |-> 4]}
Text(hits, payload) == [hits |-> hits, payload |-> payload]
Words == [Nothing EXCEPT !.is = "words"]
Phones(ps) == [Nothing EXCEPT !.is = "phones", !.phones = ps]
Number(k) == [Nothing EXCEPT !.is = "number", !.number = k]
Message(from, hits, payload) == [from |-> from, text |-> Text(hits, payload), timer |-> 0]
Bare(from, command) == Message(from, Says(command), Nothing)
Timer(from) == [from |-> from, text |-> Text({}, Nothing), timer |-> 2]
Adds(from) == Message(from, Says("ADD"), Phones({pat}))

AboutTimers ==
  {Timer(ann), Timer(sue), Timer(pat), Bare(pat, "JOIN"), Bare(pat, "ACCEPT"), Bare(sue, "LEAVE"),
   Adds(ann), Message(bob, Says("REMOVE"), Phones({sue})),
   Message(sue, Says("INVITE"), Phones({pat}))}
AboutHotline ==
  {Message(pat, {}, Words), Message(sue, {}, Words), Message(ann, Says("REPLY"), Number(1)),
   Message(bob, Says("REPLY"), Number(2)), Message(ann, Says("BAN"), Number(1)),
   Bare(ann, "HOTLINE_OFF"), Message(bob, Says("BROADCAST"), Words)}
Others ==
  {Message(ann, Says("PRIVATE"), Words), Bare(sue, "HELP"), Bare(bob, "INFO"), Bare(ann, "DESTROY"),
   Bare(ann, "VOUCHING_ON"), Bare(bob, "VOUCHING_OFF"), Bare(ann, "VOUCHING_ADMIN"),
   Message(ann, Says("VOUCH_LEVEL"), Number(2)), Message(ann, Says("VOUCH_LEVEL"), Number(3)),
   Bare(pat, "SET_LANGUAGE"), Bare(pat, "DECLINE"), Bare(bob, "HOTLINE_ON"),
   Message(sue, Says("INVITE") \cup {[command |-> "INFO", language |-> "FR", length |-> 2]}, Phones({pat})),
   Message(sue, Says("JOIN"), Words), Message(ann, {}, Words),
   Message(ann, Says("RESTART"), Words)}
OnSupport == {Bare(pat, "REQUEST"), Message(pat, Says("CHANNEL"), Phones({pat})), Bare(ann, "REQUEST")}
OnDiagnostics == {Message(ann, Says("RESTART"), Words), Message(sue, Says("RESTART"), Words),
                  Bare(ann, "INFO"), Bare(bob, "LEAVE")}
Twice == {Message(ann, Says("BROADCAST"), Words), Message(bob, Says("BROADCAST"), Words)}

Rare ==
  {{Message(pat, {}, Words), Message(ann, Says("BAN"), Number(1)), x} :
     x \in {Bare(pat, "JOIN"), Adds(bob), Message(bob, Says("INVITE"), Phones({pat, sue})),
            Message(pat, {}, Nothing)}}
    \cup {{Adds(ann), Message(bob, Says("REMOVE"), Phones({pat}))},
           {Message(pat, {}, Words), Message(ann, Says("BAN"), Number(1)), Bare(pat, "JOIN"), Timer(pat)}}

\* Each message gets a number of its own.
Numbered(ms) == LET f == SetToSeq(ms) IN {[n |-> i] @@ f[i] : i \in DOMAIN f}
Inbox(k, ms) == {[kind |-> k, messages |-> Numbered(x)] : x \in ms}

Arrivals ==
  Inbox("user", kSubset(3, AboutTimers)) \cup Inbox("user", kSubset(3, AboutHotline))
    \cup Inbox("user", kSubset(2, Others)) \cup Inbox("user", Rare \cup {Twice})
    \cup Inbox("support", {OnSupport}) \cup Inbox("diagnostics", kSubset(2, OnDiagnostics))

Alike == Permutations(Handlers)
=============================================================================
