--------------------------- MODULE ProviderProofs ---------------------------
(***************************************************************************)
(* Valid lets nobody in who has not shown what the options ask for, and    *)
(* turns nobody away who has: for any users, groups and options New        *)
(* accepts, and any changes of the account during the call.                *)
(***************************************************************************)
EXTENDS Provider, TLAPS

-----------------------------------------------------------------------------
(***************************************************************************)
(* The inductive invariant.                                                *)
(***************************************************************************)
ProviderTypeOK ==
    /\ opts \in {o \in Options : Readable(o) /\ New(o)}
    /\ account \in Accounts
    /\ live \in BOOLEAN /\ quiet \in BOOLEAN
    /\ changes \in 0 .. MaxChanges
    /\ user \in Users \cup {NoName}
    /\ left \subseteq Groups \cup {NoGroup}
    /\ verdict \in {"none", "yes", "no"}
    /\ held \subseteq {"token", "whitelist", "home", "groups", "audience"}

\* The checks Valid may come to.
Checks(o) ==
    CASE o.provider = "github"    -> {"whitelist", "token"}
                                        \cup IF o.home THEN {"orguser", "org"} ELSE {}
      [] o.provider = "google"    -> {"whitelist", "token", "tokeninfo", "userinfo"}
      [] o.provider = "gitlab"    -> {"token"}
                                        \cup IF o.allusers THEN {} ELSE {"user", "whitelist", "groups"}
      [] o.provider = "microsoft" -> {"whitelist", "token"}
                                        \cup IF o.home THEN {"tenant", "memberof"} ELSE {}

\* A check comes after the ones the provider makes before it, and those have
\* been passed.
Passed(check) ==
    LET gitlab == opts.provider = "gitlab" IN
    /\ check \in Checks(opts)
    /\ check \notin (IF gitlab THEN {"token"} ELSE {"whitelist", "token"}) => "token" \in held
    /\ check \notin (IF gitlab THEN {"token", "user", "whitelist"} ELSE {"whitelist"})
          => opts.whitelist = {} \/ "whitelist" \in held
    /\ check = "userinfo" => "audience" \in held
    /\ check = "memberof" => "home" \in held

PassedInOrder ==
    at # "idle" => verdict = "none" /\ Passed(at) /\ Holds(opts, account, live) \subseteq held

\* The groups still to be asked about, and what a call without failures and
\* changes knows of the account.
AskedSoFar ==
    at # "idle" =>
        /\ left \subseteq ProvidedAuthGroups(opts)
        /\ at # "groups" => left = ProvidedAuthGroups(opts)
        /\ at = "groups" => left # {} \/ ProvidedAuthGroups(opts) = {}
        /\ at = "memberof" => left # {}
        /\ quiet => account.groups \cap ProvidedAuthGroups(opts) \subseteq left
        /\ quiet /\ at = "org" => user = account.name

\* The inductive invariant: the two properties with what they rest on.
ProviderInv ==
    /\ ProviderTypeOK
    /\ YesIsEarned
    /\ AdmitsUnlessIgnored
    /\ PassedInOrder
    /\ AskedSoFar

-----------------------------------------------------------------------------
Accepted == {o \in Options : Readable(o) /\ New(o)}

\* The groups Valid asks about are those the options name, unless an option is
\* ignored; an empty groups option asks about a group nobody is in.
LEMMA GroupsAskedAbout ==
    ASSUME NEW o \in Options
    PROVE  /\ ProvidedAuthGroups(o) \subseteq Groups \cup {NoGroup}
           /\ ProvidedAuthGroups(o) \cap Groups \subseteq NamedGroups(o)
           /\ ProvidedAuthGroups(o) = {} => NamedGroups(o) = {}
           /\ ~Ignored(o) => ProvidedAuthGroups(o) = NamedGroups(o)
<1> DEFINE occurs(g) == \E x \in Split(o.groups) : g = x \/ <<g, x>> \in Inside
           late == {g \in Groups : g = o.group /\ ~occurs(g)}
<1>1. ProvidedAuthGroups(o) = Split(o.groups) \cup late
  BY DEF ProvidedAuthGroups
<1>2. o.groups \in {Unset} \cup SUBSET Groups /\ o.group \in {Unset} \cup Groups
  BY DEF Options
<1>3. Unset # {} /\ Unset \notin Groups /\ NoGroup \notin Groups
  BY ProviderAssumption
<1>4. /\ o.groups = Unset => Split(o.groups) = {}
      /\ o.groups = {} => Split(o.groups) = {NoGroup}
      /\ o.groups \notin {Unset, {}} => Split(o.groups) = o.groups
  BY <1>3 DEF Split
<1>5. /\ late \subseteq Groups \cap {o.group}
      /\ Split(o.groups) = {} => late = Groups \cap {o.group}
  OBVIOUS
<1> HIDE DEF late, occurs
<1>6. /\ ProvidedAuthGroups(o) \subseteq Groups \cup {NoGroup}
      /\ ProvidedAuthGroups(o) \cap Groups \subseteq NamedGroups(o)
  BY <1>1, <1>2, <1>3, <1>4, <1>5 DEF NamedGroups
<1>7. ASSUME ProvidedAuthGroups(o) = {} PROVE NamedGroups(o) = {}
  <2>1. Split(o.groups) = {} /\ late = {}
    BY <1>1, <1>7
  <2>2. o.groups = Unset /\ o.group = Unset
    BY <1>2, <1>4, <1>5, <2>1
  <2>3. QED
    BY <2>2 DEF NamedGroups
<1>8. ASSUME ~Ignored(o) PROVE ProvidedAuthGroups(o) = NamedGroups(o)
  <2>1. o.groups # {} /\ (o.group = Unset \/ o.group \in ProvidedAuthGroups(o))
    BY <1>8 DEF Ignored
  <2>2. Split(o.groups) = IF o.groups = Unset THEN {} ELSE o.groups
    BY <1>2, <1>4, <2>1
  <2>3. QED
    BY <1>1, <1>2, <1>3, <1>5, <2>1, <2>2 DEF NamedGroups
<1>9. QED
  BY <1>6, <1>7, <1>8

\* What the options ask for, condition by condition.
LEMMA RequiredIs ==
    ASSUME NEW o \in Options, NEW c
    PROVE  c \in Required(o) <=>
              \/ c = "token"
              \/ ~o.allusers /\ \/ c = "whitelist" /\ o.whitelist # {}
                                \/ c = "home" /\ o.home
                                \/ c = "groups" /\ NamedGroups(o) # {}
                                \/ c = "audience" /\ o.provider = "google"
  BY DEF Required

\* The options each provider reads.
LEMMA OptionsRead ==
    ASSUME NEW o \in Accepted
    PROVE  /\ o \in Options /\ o.provider \in {"github", "google", "gitlab", "microsoft"}
           /\ o.provider # "gitlab" => ~o.allusers /\ o.group = Unset
           /\ o.provider = "gitlab" => ~o.home
           /\ o.provider \in {"github", "google"} =>
                 NamedGroups(o) = {} /\ ProvidedAuthGroups(o) = {}
<1>1. /\ o \in Options /\ Readable(o)
      /\ o.provider \in {"github", "google", "gitlab", "microsoft"}
  BY ProviderAssumption DEF Accepted, Options
<1>2. /\ o.provider # "gitlab" => ~o.allusers /\ o.group = Unset
      /\ o.provider = "gitlab" => ~o.home
      /\ o.provider \in {"github", "google"} => o.groups = Unset
  BY <1>1 DEF Readable
<1>3. o.groups = Unset /\ o.group = Unset => NamedGroups(o) = {} /\ ProvidedAuthGroups(o) = {}
  BY ProviderAssumption DEF NamedGroups, ProvidedAuthGroups, Split
<1>4. QED
  BY <1>1, <1>2, <1>3

\* A check leaves the types alone.
LEMMA GotoTyped ==
    ASSUME ProviderTypeOK, NEW next, Goto(next), quiet' \in BOOLEAN,
           user' \in Users \cup {NoName}, left' \subseteq Groups \cup {NoGroup}
    PROVE  ProviderTypeOK'
<1>1. UNCHANGED <<opts, account, live, changes, held>>
  BY DEF Goto
<1>2. verdict' \in {"none", "yes", "no"}
  BY DEF Goto
<1>3. QED
  BY <1>1, <1>2 DEF ProviderTypeOK

LEMMA TypeStep ==
    ASSUME ProviderInv, Next
    PROVE  ProviderTypeOK'
<1> USE DEF ProviderInv
<1>1. /\ quiet \in BOOLEAN /\ user \in Users \cup {NoName} /\ left \subseteq Groups \cup {NoGroup}
      /\ account.name \in Users /\ opts \in Options /\ live \in BOOLEAN /\ account \in Accounts
      /\ changes \in 0 .. MaxChanges
  BY DEF ProviderTypeOK, Accounts
<1>2. CASE Valid
  <2>1. left' \subseteq Groups \cup {NoGroup}
    BY <1>1, <1>2, GroupsAskedAbout DEF Valid
  <2>2. held' \subseteq {"token", "whitelist", "home", "groups", "audience"}
    BY <1>2 DEF Valid, Holds
  <2>3. QED
    BY <1>2, <2>1, <2>2 DEF Valid, ProviderTypeOK
<1>3. ASSUME NEW up \in BOOLEAN, Call(up) PROVE quiet' \in BOOLEAN
  BY <1>1, <1>3 DEF Call
<1>4. CASE CheckWhitelist
  <2>1. user' = user /\ left' = left
    BY <1>4 DEF CheckWhitelist
  <2>2. CASE Goto(AfterWhitelist) /\ UNCHANGED quiet
    BY <1>1, <2>1, <2>2, GotoTyped
  <2>3. ASSUME NEW up \in BOOLEAN, Call(up),
               Goto(IF up /\ account.name \in opts.whitelist THEN AfterWhitelist ELSE "no")
        PROVE  ProviderTypeOK'
    BY <1>1, <1>3, <2>1, <2>3, GotoTyped
  <2>4. QED
    BY <1>4, <2>2, <2>3 DEF CheckWhitelist
<1>5. CASE CheckToken
  BY <1>1, <1>5, GotoTyped DEF CheckToken
<1>6. CASE OrgUser
  <2>1. PICK up \in BOOLEAN : Call(up) /\ user' = IF up THEN account.name ELSE NoName
    BY <1>6 DEF OrgUser
  <2>2. Goto("org") /\ left' = left
    BY <1>6 DEF OrgUser
  <2>3. user' \in Users \cup {NoName}
    BY <1>1, <2>1
  <2>4. QED
    BY <1>1, <1>3, <2>1, <2>2, <2>3, GotoTyped
<1>7. CASE CheckOrg
  <2>1. PICK up \in BOOLEAN : Call(up) /\ Goto(IF IsMember(up) THEN "yes" ELSE "no")
    BY <1>7 DEF CheckOrg
  <2>2. QED
    BY <1>1, <1>3, <1>7, <2>1, GotoTyped DEF CheckOrg
<1>8. CASE CheckTokeninfo
  <2>1. PICK up \in BOOLEAN : Call(up) /\ Goto(IF up /\ account.audience THEN "userinfo" ELSE "no")
    BY <1>8 DEF CheckTokeninfo
  <2>2. QED
    BY <1>1, <1>3, <1>8, <2>1, GotoTyped DEF CheckTokeninfo
<1>9. CASE CheckUserinfo
  <2>1. PICK up \in BOOLEAN :
           Call(up) /\ Goto(IF up /\ (opts.home => account.home) THEN "yes" ELSE "no")
    BY <1>9 DEF CheckUserinfo
  <2>2. QED
    BY <1>1, <1>3, <1>9, <2>1, GotoTyped DEF CheckUserinfo
<1>10. CASE GetUser
  <2>1. PICK up \in BOOLEAN : Call(up) /\ Goto(IF up THEN "whitelist" ELSE "no")
    BY <1>10 DEF GetUser
  <2>2. QED
    BY <1>1, <1>3, <1>10, <2>1, GotoTyped DEF GetUser
<1>11. CASE NoGroups
  BY <1>1, <1>11, GotoTyped DEF NoGroups
<1>12. ASSUME NEW g \in left, CheckGroupMembership(g) PROVE ProviderTypeOK'
  <2>1. PICK up \in BOOLEAN : Call(up) /\ Goto(AfterGroup(g, up /\ g \in account.groups))
    BY <1>12 DEF CheckGroupMembership
  <2>2. user' = user /\ left' = left \ {g}
    BY <1>12 DEF CheckGroupMembership
  <2>3. QED
    BY <1>1, <1>3, <2>1, <2>2, GotoTyped
<1>13. CASE VerifyTenant
  <2>1. PICK up \in BOOLEAN :
           /\ Call(up)
           /\ Goto(IF ~(up /\ account.home) THEN "no" ELSE
                   IF left = {} THEN "yes" ELSE "memberof")
    BY <1>13 DEF VerifyTenant
  <2>2. QED
    BY <1>1, <1>3, <1>13, <2>1, GotoTyped DEF VerifyTenant
<1>14. CASE VerifyGroups
  <2>1. PICK up \in BOOLEAN :
           Call(up) /\ Goto(IF up /\ account.groups \cap left # {} THEN "yes" ELSE "no")
    BY <1>14 DEF VerifyGroups
  <2>2. QED
    BY <1>1, <1>3, <1>14, <2>1, GotoTyped DEF VerifyGroups
<1>15. CASE Change
  <2>1. account' \in Accounts /\ live' \in BOOLEAN
    BY <1>1, <1>15 DEF Change
  <2>2. Holds(opts, account', live') \subseteq {"token", "whitelist", "home", "groups", "audience"}
    BY DEF Holds
  <2>3. changes' \in 0 .. MaxChanges
    BY <1>1, <1>15, ProviderAssumption DEF Change
  <2>4. QED
    BY <1>15, <2>1, <2>2, <2>3 DEF Change, ProviderTypeOK
<1>16. QED
  BY <1>2, <1>4, <1>5, <1>6, <1>7, <1>8, <1>9, <1>10, <1>11, <1>12, <1>13, <1>14, <1>15 DEF Next

\* Where each check belongs.
LEMMA ChecksOf ==
    ASSUME NEW o \in Accepted
    PROVE  /\ \A c \in Checks(o) :
                 /\ c \in {"whitelist", "token", "orguser", "org", "tokeninfo", "userinfo",
                           "user", "groups", "tenant", "memberof"}
                 /\ c \in {"orguser", "org"} => o.provider = "github" /\ o.home
                 /\ c \in {"tokeninfo", "userinfo"} => o.provider = "google"
                 /\ c \in {"user", "groups"} => o.provider = "gitlab" /\ ~o.allusers
                 /\ c = "whitelist" => ~o.allusers
                 /\ c \in {"tenant", "memberof"} => o.provider = "microsoft" /\ o.home
           /\ "token" \in Checks(o)
           /\ o.provider # "gitlab" \/ ~o.allusers => "whitelist" \in Checks(o)
           /\ o.provider = "github" /\ o.home => {"orguser", "org"} \subseteq Checks(o)
           /\ o.provider = "google" => {"tokeninfo", "userinfo"} \subseteq Checks(o)
           /\ o.provider = "gitlab" /\ ~o.allusers => {"user", "groups"} \subseteq Checks(o)
           /\ o.provider = "microsoft" /\ o.home => {"tenant", "memberof"} \subseteq Checks(o)
<1>1. /\ o.provider \in {"github", "google", "gitlab", "microsoft"}
      /\ o.provider # "gitlab" => ~o.allusers
  BY OptionsRead
<1>2. CASE o.provider = "github"
  BY <1>1, <1>2 DEF Checks
<1>3. CASE o.provider = "google"
  BY <1>1, <1>3 DEF Checks
<1>4. CASE o.provider = "gitlab"
  BY <1>1, <1>4 DEF Checks
<1>5. CASE o.provider = "microsoft"
  BY <1>1, <1>5 DEF Checks
<1>6. QED
  BY <1>1, <1>2, <1>3, <1>4, <1>5

LEMMA GotoPassed ==
    ASSUME PassedInOrder, at # "idle", NEW next, Goto(next), next \in {"yes", "no"} \/ Passed(next)
    PROVE  PassedInOrder'
<1>1. CASE next \in {"yes", "no"}
  BY <1>1 DEF Goto, PassedInOrder
<1>2. CASE next \notin {"yes", "no"} /\ Passed(next)
  <2>1. /\ at' = next /\ verdict' = "none"
        /\ UNCHANGED <<opts, account, live, held>>
    BY <1>2 DEF Goto
  <2>2. Passed(next)'
    BY <1>2, <2>1 DEF Passed
  <2>3. QED
    BY <2>1, <2>2 DEF PassedInOrder, Passed
<1>3. QED
  BY <1>1, <1>2

\* What holds of the account at a check has been seen to hold.
LEMMA Seen ==
    ASSUME PassedInOrder, at # "idle"
    PROVE  /\ live => "token" \in held
           /\ account.name \in opts.whitelist => "whitelist" \in held
           /\ account.home => "home" \in held
           /\ account.groups \cap NamedGroups(opts) # {} => "groups" \in held
           /\ account.audience => "audience" \in held
<1>1. Holds(opts, account, live) \subseteq held
  BY DEF PassedInOrder
<1>2. /\ live => "token" \in Holds(opts, account, live)
      /\ account.name \in opts.whitelist => "whitelist" \in Holds(opts, account, live)
      /\ account.home => "home" \in Holds(opts, account, live)
      /\ account.groups \cap NamedGroups(opts) # {} => "groups" \in Holds(opts, account, live)
      /\ account.audience => "audience" \in Holds(opts, account, live)
  BY DEF Holds
<1>3. QED
  BY <1>1, <1>2

LEMMA PassedStep ==
    ASSUME ProviderInv, Next
    PROVE  PassedInOrder'
<1>1. /\ ProviderTypeOK /\ PassedInOrder /\ opts \in Accepted
      /\ at # "idle" => Passed(at) /\ at \in Checks(opts)
  BY DEF ProviderInv, ProviderTypeOK, Accepted, PassedInOrder, Passed
<1>2. /\ opts.provider \in {"github", "google", "gitlab", "microsoft"}
      /\ opts.provider # "gitlab" => ~opts.allusers
  BY <1>1, OptionsRead
<1>3. CASE Valid
  <2>1. /\ UNCHANGED <<opts, account, live>> /\ verdict' = "none"
        /\ held' = Holds(opts, account, live)
        /\ at' = IF opts.provider = "gitlab" THEN "token" ELSE "whitelist"
    BY <1>3 DEF Valid
  <2>2. at' \in Checks(opts)
    BY <1>1, <2>1, ChecksOf
  <2>3. Passed(at)'
    BY <2>1, <2>2 DEF Passed
  <2>4. QED
    BY <2>1, <2>3 DEF PassedInOrder
<1>4. CASE CheckWhitelist
  <2>1. at = "whitelist" /\ ~opts.allusers
    BY <1>1, <1>4, ChecksOf DEF CheckWhitelist
  <2>2. ASSUME opts.whitelist = {} \/ "whitelist" \in held
        PROVE  Passed(AfterWhitelist)
    <3>1. CASE opts.provider = "gitlab"
      <4>1. AfterWhitelist = "groups" /\ "groups" \in Checks(opts) /\ "token" \in held
        BY <1>1, <2>1, <3>1, ChecksOf DEF AfterWhitelist, Passed
      <4>2. QED
        BY <2>2, <4>1, <3>1 DEF Passed
    <3>2. CASE opts.provider # "gitlab"
      <4>1. AfterWhitelist = "token" /\ "token" \in Checks(opts)
        BY <1>1, <3>2, ChecksOf DEF AfterWhitelist
      <4>2. QED
        BY <2>2, <4>1, <3>2 DEF Passed
    <3>3. QED
      BY <3>1, <3>2
  <2>3. CASE opts.whitelist = {} /\ Goto(AfterWhitelist)
    BY <1>1, <2>1, <2>2, <2>3, GotoPassed
  <2>4. ASSUME NEW up \in BOOLEAN,
               Goto(IF up /\ account.name \in opts.whitelist THEN AfterWhitelist ELSE "no")
        PROVE  PassedInOrder'
    <3>1. account.name \in opts.whitelist => Passed(AfterWhitelist)
      BY <1>1, <2>1, <2>2, Seen
    <3>2. QED
      BY <1>1, <2>1, <2>4, <3>1, GotoPassed
  <2>5. QED
    BY <1>4, <2>3, <2>4 DEF CheckWhitelist
<1>5. CASE CheckToken
  <2>1. at = "token" /\ Goto(IF live THEN AfterToken ELSE "no")
    BY <1>5 DEF CheckToken
  <2>2. /\ live => "token" \in held
        /\ opts.provider # "gitlab" => opts.whitelist = {} \/ "whitelist" \in held
    BY <1>1, <2>1, Seen DEF Passed
  <2>3. ASSUME live PROVE AfterToken = "yes" \/ AfterToken = "no" \/ Passed(AfterToken)
    <3>1. /\ opts.provider = "github" => AfterToken = IF opts.home THEN "orguser" ELSE "yes"
          /\ opts.provider = "google" => AfterToken = "tokeninfo"
          /\ opts.provider = "gitlab" => AfterToken = IF opts.allusers THEN "yes" ELSE "user"
          /\ opts.provider = "microsoft" => AfterToken = IF opts.home THEN "tenant" ELSE "no"
      BY DEF AfterToken
    <3>2. AfterToken \in {"yes", "no"} \/ AfterToken \in Checks(opts)
      BY <1>1, <1>2, <3>1, ChecksOf
    <3>3. AfterToken \in {"yes", "no", "orguser", "tokeninfo", "user", "tenant"}
      BY <1>2, <3>1
    <3>4. opts.provider = "gitlab" => AfterToken \in {"yes", "user"}
      BY <3>1
    <3>5. QED
      BY <2>2, <2>3, <3>2, <3>3, <3>4 DEF Passed
  <2>4. QED
    BY <1>1, <2>1, <2>3, GotoPassed
<1>6. CASE OrgUser
  <2>1. at = "orguser" /\ Goto("org")
    BY <1>6 DEF OrgUser
  <2>2. opts.provider = "github" /\ "org" \in Checks(opts)
    BY <1>1, <2>1, ChecksOf
  <2>3. Passed("org")
    BY <1>1, <2>1, <2>2 DEF Passed
  <2>4. QED
    BY <1>1, <2>1, <2>3, GotoPassed
<1>7. CASE CheckOrg
  <2>1. PICK up \in BOOLEAN : Goto(IF IsMember(up) THEN "yes" ELSE "no")
    BY <1>7 DEF CheckOrg
  <2>2. QED
    BY <1>1, <1>7, <2>1, GotoPassed DEF CheckOrg
<1>8. CASE CheckTokeninfo
  <2>1. PICK up \in BOOLEAN : Goto(IF up /\ account.audience THEN "userinfo" ELSE "no")
    BY <1>8 DEF CheckTokeninfo
  <2>2. /\ at = "tokeninfo" /\ opts.provider = "google" /\ "userinfo" \in Checks(opts)
        /\ account.audience => "audience" \in held
    BY <1>1, <1>8, ChecksOf, Seen DEF CheckTokeninfo
  <2>3. account.audience => Passed("userinfo")
    BY <1>1, <2>2 DEF Passed
  <2>4. QED
    BY <1>1, <2>1, <2>2, <2>3, GotoPassed
<1>9. CASE CheckUserinfo
  <2>1. PICK up \in BOOLEAN : Goto(IF up /\ (opts.home => account.home) THEN "yes" ELSE "no")
    BY <1>9 DEF CheckUserinfo
  <2>2. QED
    BY <1>1, <1>9, <2>1, GotoPassed DEF CheckUserinfo
<1>10. CASE GetUser
  <2>1. PICK up \in BOOLEAN : Goto(IF up THEN "whitelist" ELSE "no")
    BY <1>10 DEF GetUser
  <2>2. at = "user" /\ opts.provider = "gitlab" /\ "whitelist" \in Checks(opts)
    BY <1>1, <1>10, ChecksOf DEF GetUser
  <2>3. Passed("whitelist")
    BY <1>1, <2>2 DEF Passed
  <2>4. QED
    BY <1>1, <2>1, <2>2, <2>3, GotoPassed
<1>11. CASE NoGroups
  BY <1>1, <1>11, GotoPassed DEF NoGroups
<1>12. ASSUME NEW g \in left, CheckGroupMembership(g) PROVE PassedInOrder'
  <2>1. PICK up \in BOOLEAN : Goto(AfterGroup(g, up /\ g \in account.groups))
    BY <1>12 DEF CheckGroupMembership
  <2>2. at = "groups"
    BY <1>12 DEF CheckGroupMembership
  <2>3. AfterGroup(g, up /\ g \in account.groups) \in {"yes", "no", "groups"}
    BY DEF AfterGroup
  <2>4. QED
    BY <1>1, <2>1, <2>2, <2>3, GotoPassed
<1>13. CASE VerifyTenant
  <2>1. PICK up \in BOOLEAN : Goto(IF ~(up /\ account.home) THEN "no" ELSE
                                   IF left = {} THEN "yes" ELSE "memberof")
    BY <1>13 DEF VerifyTenant
  <2>2. /\ at = "tenant" /\ opts.provider = "microsoft" /\ "memberof" \in Checks(opts)
        /\ account.home => "home" \in held
    BY <1>1, <1>13, ChecksOf, Seen DEF VerifyTenant
  <2>3. account.home => Passed("memberof")
    BY <1>1, <2>2 DEF Passed
  <2>4. QED
    BY <1>1, <2>1, <2>2, <2>3, GotoPassed
<1>14. CASE VerifyGroups
  <2>1. PICK up \in BOOLEAN : Goto(IF up /\ account.groups \cap left # {} THEN "yes" ELSE "no")
    BY <1>14 DEF VerifyGroups
  <2>2. QED
    BY <1>1, <1>14, <2>1, GotoPassed DEF VerifyGroups
<1>15. CASE Change
  <2>1. UNCHANGED <<opts, at, verdict>> /\ held' = held \cup Holds(opts, account', live')
    BY <1>15 DEF Change
  <2>2. Passed(at) => Passed(at)'
    BY <2>1 DEF Passed
  <2>3. QED
    BY <1>1, <2>1, <2>2 DEF PassedInOrder
<1>16. QED
  BY <1>3, <1>4, <1>5, <1>6, <1>7, <1>8, <1>9, <1>10, <1>11, <1>12, <1>13, <1>14, <1>15 DEF Next

\* A check that asks about no single group.
LEMMA GotoAsked ==
    ASSUME AskedSoFar, at \notin {"idle", "groups"}, NEW next, Goto(next),
           left' = left, quiet' => quiet,
           next = "memberof" => left # {},
           next = "org" /\ quiet' => user' = account.name
    PROVE  AskedSoFar'
<1>1. UNCHANGED <<opts, account>>
  BY DEF Goto
<1>2. /\ left = ProvidedAuthGroups(opts)
      /\ quiet => account.groups \cap ProvidedAuthGroups(opts) \subseteq left
  BY DEF AskedSoFar
<1>3. at' = "idle" \/ at' = next
  BY DEF Goto
<1>4. ProvidedAuthGroups(opts)' = ProvidedAuthGroups(opts)
  BY <1>1 DEF ProvidedAuthGroups
<1>5. QED
  BY <1>1, <1>2, <1>3, <1>4 DEF AskedSoFar

LEMMA AskedStep ==
    ASSUME ProviderInv, Next
    PROVE  AskedSoFar'
<1>1. /\ AskedSoFar /\ PassedInOrder /\ quiet \in BOOLEAN /\ opts \in Accepted
      /\ at # "idle" => at \in Checks(opts)
  BY DEF ProviderInv, ProviderTypeOK, Accepted, PassedInOrder, Passed
<1>2. ASSUME NEW up \in BOOLEAN, Call(up) PROVE quiet' => quiet /\ up
  BY <1>1, <1>2 DEF Call
<1>3. CASE Valid
  <2>1. /\ UNCHANGED <<opts, account>> /\ left' = ProvidedAuthGroups(opts)
        /\ at' \in {"token", "whitelist"}
    BY <1>3 DEF Valid
  <2>2. ProvidedAuthGroups(opts)' = ProvidedAuthGroups(opts)
    BY <2>1 DEF ProvidedAuthGroups
  <2>3. QED
    BY <2>1, <2>2 DEF AskedSoFar
<1>4. CASE CheckWhitelist
  <2>1. at = "whitelist" /\ left' = left /\ AfterWhitelist \in {"groups", "token"}
    BY <1>4 DEF CheckWhitelist, AfterWhitelist
  <2>2. CASE Goto(AfterWhitelist) /\ UNCHANGED quiet
    BY <1>1, <2>1, <2>2, GotoAsked
  <2>3. ASSUME NEW up \in BOOLEAN, Call(up),
               Goto(IF up /\ account.name \in opts.whitelist THEN AfterWhitelist ELSE "no")
        PROVE  AskedSoFar'
    BY <1>1, <1>2, <2>1, <2>3, GotoAsked
  <2>4. QED
    BY <1>4, <2>2, <2>3 DEF CheckWhitelist
<1>5. CASE CheckToken
  <2>1. /\ at = "token" /\ Goto(IF live THEN AfterToken ELSE "no")
        /\ left' = left /\ quiet' = quiet
    BY <1>5 DEF CheckToken
  <2>2. AfterToken \in {"yes", "no", "orguser", "tokeninfo", "user", "tenant"}
    BY <1>1, OptionsRead DEF AfterToken
  <2>3. QED
    BY <1>1, <2>1, <2>2, GotoAsked
<1>6. CASE OrgUser
  <2>1. PICK up \in BOOLEAN : Call(up) /\ user' = IF up THEN account.name ELSE NoName
    BY <1>6 DEF OrgUser
  <2>2. at = "orguser" /\ Goto("org") /\ left' = left
    BY <1>6 DEF OrgUser
  <2>3. quiet' => quiet /\ user' = account.name
    BY <1>2, <2>1
  <2>4. QED
    BY <1>1, <2>2, <2>3, GotoAsked
<1>7. CASE CheckOrg
  <2>1. PICK up \in BOOLEAN : Call(up) /\ Goto(IF IsMember(up) THEN "yes" ELSE "no")
    BY <1>7 DEF CheckOrg
  <2>2. QED
    BY <1>1, <1>2, <1>7, <2>1, GotoAsked DEF CheckOrg
<1>8. CASE CheckTokeninfo
  <2>1. PICK up \in BOOLEAN : Call(up) /\ Goto(IF up /\ account.audience THEN "userinfo" ELSE "no")
    BY <1>8 DEF CheckTokeninfo
  <2>2. QED
    BY <1>1, <1>2, <1>8, <2>1, GotoAsked DEF CheckTokeninfo
<1>9. CASE CheckUserinfo
  <2>1. PICK up \in BOOLEAN :
           Call(up) /\ Goto(IF up /\ (opts.home => account.home) THEN "yes" ELSE "no")
    BY <1>9 DEF CheckUserinfo
  <2>2. QED
    BY <1>1, <1>2, <1>9, <2>1, GotoAsked DEF CheckUserinfo
<1>10. CASE GetUser
  <2>1. PICK up \in BOOLEAN : Call(up) /\ Goto(IF up THEN "whitelist" ELSE "no")
    BY <1>10 DEF GetUser
  <2>2. QED
    BY <1>1, <1>2, <1>10, <2>1, GotoAsked DEF GetUser
<1>11. CASE NoGroups
  BY <1>11 DEF NoGroups, Goto, AskedSoFar
<1>12. ASSUME NEW g \in left, CheckGroupMembership(g) PROVE AskedSoFar'
  <2>1. PICK up \in BOOLEAN : Call(up) /\ Goto(AfterGroup(g, up /\ g \in account.groups))
    BY <1>12 DEF CheckGroupMembership
  <2>2. at = "groups" /\ left' = left \ {g}
    BY <1>12 DEF CheckGroupMembership
  <2>3. UNCHANGED <<opts, account>>
    BY <2>1 DEF Goto
  <2>4. CASE (up /\ g \in account.groups) \/ left = {g}
    <3>1. AfterGroup(g, up /\ g \in account.groups) \in {"yes", "no"}
      BY <2>4 DEF AfterGroup
    <3>2. at' = "idle"
      BY <2>1, <3>1 DEF Goto
    <3>3. QED
      BY <3>2 DEF AskedSoFar
  <2>5. CASE ~(up /\ g \in account.groups) /\ left # {g}
    <3>1. AfterGroup(g, up /\ g \in account.groups) = "groups"
      BY <2>5 DEF AfterGroup
    <3>2. at' = "groups"
      BY <2>1, <3>1 DEF Goto
    <3>3. ProvidedAuthGroups(opts)' = ProvidedAuthGroups(opts)
      BY <2>3 DEF ProvidedAuthGroups
    <3>4. /\ left' \subseteq ProvidedAuthGroups(opts) /\ left' # {}
      BY <1>1, <2>2, <2>5 DEF AskedSoFar
    <3>5. quiet' => g \notin account.groups /\ quiet
      BY <1>2, <2>1, <2>5
    <3>6. quiet' => account.groups \cap ProvidedAuthGroups(opts) \subseteq left'
      BY <1>1, <2>2, <3>5 DEF AskedSoFar
    <3>7. QED
      BY <2>3, <3>2, <3>3, <3>4, <3>6 DEF AskedSoFar
  <2>6. QED
    BY <2>4, <2>5
<1>13. CASE VerifyTenant
  <2>1. PICK up \in BOOLEAN :
           /\ Call(up)
           /\ Goto(IF ~(up /\ account.home) THEN "no" ELSE
                   IF left = {} THEN "yes" ELSE "memberof")
    BY <1>13 DEF VerifyTenant
  <2>2. QED
    BY <1>1, <1>2, <1>13, <2>1, GotoAsked DEF VerifyTenant
<1>14. CASE VerifyGroups
  <2>1. PICK up \in BOOLEAN :
           Call(up) /\ Goto(IF up /\ account.groups \cap left # {} THEN "yes" ELSE "no")
    BY <1>14 DEF VerifyGroups
  <2>2. QED
    BY <1>1, <1>2, <1>14, <2>1, GotoAsked DEF VerifyGroups
<1>15. CASE Change
  <2>1. UNCHANGED <<opts, at, left>> /\ quiet' = FALSE
    BY <1>15 DEF Change
  <2>2. ProvidedAuthGroups(opts)' = ProvidedAuthGroups(opts)
    BY <2>1 DEF ProvidedAuthGroups
  <2>3. QED
    BY <1>1, <2>1, <2>2 DEF AskedSoFar
<1>16. QED
  BY <1>3, <1>4, <1>5, <1>6, <1>7, <1>8, <1>9, <1>10, <1>11, <1>12, <1>13, <1>14, <1>15 DEF Next

\* What a yes must have seen, condition by condition.
LEMMA Enough ==
    ASSUME opts \in Accepted, "token" \in held,
           ~opts.allusers => /\ opts.whitelist = {} \/ "whitelist" \in held
                             /\ opts.home => "home" \in held
                             /\ NamedGroups(opts) # {} => "groups" \in held
                             /\ opts.provider = "google" => "audience" \in held
    PROVE  Required(opts) \subseteq held
<1>1. opts \in Options
  BY OptionsRead
<1>2. QED
  BY <1>1, RequiredIs

\* What a no must have found missing.
LEMMA Lacking ==
    ASSUME opts \in Accepted, opts.allusers \in BOOLEAN,
           \/ ~live
           \/ ~opts.allusers /\ \/ opts.whitelist # {} /\ account.name \notin opts.whitelist
                                \/ opts.home /\ ~account.home
                                \/ /\ NamedGroups(opts) # {}
                                   /\ account.groups \cap NamedGroups(opts) = {}
                                \/ opts.provider = "google" /\ ~account.audience
    PROVE  ~(Required(opts) \subseteq Holds(opts, account, live))
<1>1. opts \in Options
  BY OptionsRead
<1>2. /\ "token" \in Holds(opts, account, live) => live
      /\ "whitelist" \in Holds(opts, account, live) => account.name \in opts.whitelist
      /\ "home" \in Holds(opts, account, live) => account.home
      /\ "groups" \in Holds(opts, account, live) => account.groups \cap NamedGroups(opts) # {}
      /\ "audience" \in Holds(opts, account, live) => account.audience
  BY DEF Holds
<1>3. /\ "token" \in Required(opts)
      /\ ~opts.allusers => /\ opts.whitelist # {} => "whitelist" \in Required(opts)
                           /\ opts.home => "home" \in Required(opts)
                           /\ NamedGroups(opts) # {} => "groups" \in Required(opts)
                           /\ opts.provider = "google" => "audience" \in Required(opts)
  BY <1>1, RequiredIs
<1>4. QED
  BY <1>2, <1>3

LEMMA GotoEarned ==
    ASSUME NEW next, Goto(next), next = "yes" => Required(opts) \subseteq held
    PROVE  YesIsEarned'
<1>1. verdict' = "yes" => next = "yes"
  BY DEF Goto
<1>2. UNCHANGED <<opts, held>>
  BY DEF Goto
<1>3. Required(opts)' = Required(opts)
  BY <1>2 DEF Required, NamedGroups
<1>4. QED
  BY <1>1, <1>2, <1>3 DEF YesIsEarned

LEMMA EarnedStep ==
    ASSUME ProviderInv, Next
    PROVE  YesIsEarned'
<1>1. /\ YesIsEarned /\ AskedSoFar /\ PassedInOrder /\ opts \in Accepted /\ account \in Accounts
      /\ at # "idle" => Passed(at) /\ at \in Checks(opts)
  BY DEF ProviderInv, ProviderTypeOK, Accepted, PassedInOrder, Passed
<1>2. /\ opts \in Options /\ opts.provider \in {"github", "google", "gitlab", "microsoft"}
      /\ opts.provider # "gitlab" => ~opts.allusers
      /\ opts.provider = "gitlab" => ~opts.home
      /\ opts.provider \in {"github", "google"} => NamedGroups(opts) = {}
  BY <1>1, OptionsRead
<1>3. CASE Valid
  BY <1>3 DEF Valid, YesIsEarned
<1>4. CASE CheckWhitelist
  <2>1. AfterWhitelist # "yes"
    BY DEF AfterWhitelist
  <2>2. PICK next : Goto(next) /\ next \in {AfterWhitelist, "no"}
    BY <1>4 DEF CheckWhitelist
  <2>3. QED
    BY <2>1, <2>2, GotoEarned
<1>5. CASE CheckToken
  <2>1. at = "token" /\ Goto(IF live THEN AfterToken ELSE "no")
    BY <1>5 DEF CheckToken
  <2>2. ASSUME live, AfterToken = "yes" PROVE Required(opts) \subseteq held
    <3>1. "token" \in held
      BY <1>1, <2>1, <2>2, Seen
    <3>2. \/ opts.provider = "github" /\ ~opts.home
          \/ opts.provider = "gitlab" /\ opts.allusers
      BY <1>2, <2>2 DEF AfterToken
    <3>3. opts.provider = "github" => opts.whitelist = {} \/ "whitelist" \in held
      BY <1>1, <2>1 DEF Passed
    <3>4. QED
      BY <1>1, <1>2, <3>1, <3>2, <3>3, Enough
  <2>3. QED
    BY <2>1, <2>2, GotoEarned
<1>6. CASE OrgUser
  BY <1>6, GotoEarned DEF OrgUser
<1>7. CASE CheckOrg
  <2>1. PICK up \in BOOLEAN : Goto(IF IsMember(up) THEN "yes" ELSE "no")
    BY <1>7 DEF CheckOrg
  <2>2. /\ at = "org" /\ opts.provider = "github"
        /\ "token" \in held /\ (opts.whitelist = {} \/ "whitelist" \in held)
    BY <1>1, <1>7, ChecksOf DEF CheckOrg, Passed
  <2>3. ASSUME IsMember(up) PROVE Required(opts) \subseteq held
    <3>1. "home" \in held
      BY <1>1, <2>2, <2>3, Seen DEF IsMember
    <3>2. QED
      BY <1>1, <1>2, <2>2, <3>1, Enough
  <2>4. QED
    BY <2>1, <2>3, GotoEarned
<1>8. CASE CheckTokeninfo
  <2>1. PICK next : Goto(next) /\ next \in {"userinfo", "no"}
    BY <1>8 DEF CheckTokeninfo
  <2>2. QED
    BY <2>1, GotoEarned
<1>9. CASE CheckUserinfo
  <2>1. PICK up \in BOOLEAN : Goto(IF up /\ (opts.home => account.home) THEN "yes" ELSE "no")
    BY <1>9 DEF CheckUserinfo
  <2>2. /\ at = "userinfo" /\ opts.provider = "google"
        /\ "token" \in held /\ (opts.whitelist = {} \/ "whitelist" \in held)
        /\ "audience" \in held
    BY <1>1, <1>9, ChecksOf DEF CheckUserinfo, Passed
  <2>3. ASSUME opts.home => account.home PROVE Required(opts) \subseteq held
    <3>1. opts.home => "home" \in held
      BY <1>1, <2>2, <2>3, Seen
    <3>2. QED
      BY <1>1, <1>2, <2>2, <3>1, Enough
  <2>4. QED
    BY <2>1, <2>3, GotoEarned
<1>10. CASE GetUser
  <2>1. PICK next : Goto(next) /\ next \in {"whitelist", "no"}
    BY <1>10 DEF GetUser
  <2>2. QED
    BY <2>1, GotoEarned
<1>11. at = "groups" => /\ opts.provider = "gitlab" /\ ~opts.home
                        /\ "token" \in held /\ (opts.whitelist = {} \/ "whitelist" \in held)
  BY <1>1, <1>2, ChecksOf DEF Passed
<1>12. CASE NoGroups
  <2>1. at = "groups" /\ left = {} /\ Goto("yes")
    BY <1>12 DEF NoGroups
  <2>2. NamedGroups(opts) = {}
    BY <1>1, <1>2, <2>1, GroupsAskedAbout DEF AskedSoFar
  <2>3. Required(opts) \subseteq held
    BY <1>1, <1>11, <2>1, <2>2, Enough
  <2>4. QED
    BY <2>1, <2>3, GotoEarned
<1>13. ASSUME NEW g \in left, CheckGroupMembership(g) PROVE YesIsEarned'
  <2>1. PICK up \in BOOLEAN : Goto(AfterGroup(g, up /\ g \in account.groups))
    BY <1>13 DEF CheckGroupMembership
  <2>2. at = "groups"
    BY <1>13 DEF CheckGroupMembership
  <2>3. ASSUME g \in account.groups PROVE Required(opts) \subseteq held
    <3>1. g \in ProvidedAuthGroups(opts) /\ g \in Groups
      BY <1>1, <2>2, <2>3 DEF AskedSoFar, Accounts
    <3>2. g \in NamedGroups(opts)
      BY <1>2, <3>1, GroupsAskedAbout
    <3>3. "groups" \in held
      BY <1>1, <2>2, <2>3, <3>2, Seen
    <3>4. QED
      BY <1>1, <1>11, <2>2, <3>3, Enough
  <2>4. AfterGroup(g, up /\ g \in account.groups) = "yes" => g \in account.groups
    BY DEF AfterGroup
  <2>5. QED
    BY <2>1, <2>3, <2>4, GotoEarned
<1>14. CASE VerifyTenant
  <2>1. PICK up \in BOOLEAN : Goto(IF ~(up /\ account.home) THEN "no" ELSE
                                   IF left = {} THEN "yes" ELSE "memberof")
    BY <1>14 DEF VerifyTenant
  <2>2. /\ at = "tenant" /\ opts.provider = "microsoft"
        /\ "token" \in held /\ (opts.whitelist = {} \/ "whitelist" \in held)
    BY <1>1, <1>14, ChecksOf DEF VerifyTenant, Passed
  <2>3. ASSUME account.home, left = {} PROVE Required(opts) \subseteq held
    <3>1. "home" \in held
      BY <1>1, <2>2, <2>3, Seen
    <3>2. NamedGroups(opts) = {}
      BY <1>1, <1>2, <2>2, <2>3, GroupsAskedAbout DEF AskedSoFar
    <3>3. QED
      BY <1>1, <2>2, <3>1, <3>2, Enough
  <2>4. QED
    BY <2>1, <2>3, GotoEarned
<1>15. CASE VerifyGroups
  <2>1. PICK up \in BOOLEAN : Goto(IF up /\ account.groups \cap left # {} THEN "yes" ELSE "no")
    BY <1>15 DEF VerifyGroups
  <2>2. /\ at = "memberof" /\ opts.provider = "microsoft"
        /\ "token" \in held /\ (opts.whitelist = {} \/ "whitelist" \in held)
        /\ "home" \in held
    BY <1>1, <1>15, ChecksOf DEF VerifyGroups, Passed
  <2>3. ASSUME account.groups \cap left # {} PROVE Required(opts) \subseteq held
    <3>1. PICK g \in account.groups : g \in ProvidedAuthGroups(opts) /\ g \in Groups
      BY <1>1, <2>2, <2>3 DEF AskedSoFar, Accounts
    <3>2. g \in NamedGroups(opts)
      BY <1>2, <3>1, GroupsAskedAbout
    <3>3. "groups" \in held
      BY <1>1, <2>2, <3>1, <3>2, Seen
    <3>4. QED
      BY <1>1, <2>2, <3>3, Enough
  <2>4. QED
    BY <2>1, <2>3, GotoEarned
<1>16. CASE Change
  <2>1. UNCHANGED <<opts, verdict>> /\ held \subseteq held'
    BY <1>16 DEF Change
  <2>2. Required(opts)' = Required(opts)
    BY <2>1 DEF Required, NamedGroups
  <2>3. QED
    BY <1>1, <2>1, <2>2 DEF YesIsEarned
<1>17. QED
  BY <1>3, <1>4, <1>5, <1>6, <1>7, <1>8, <1>9, <1>10, <1>12, <1>13, <1>14, <1>15, <1>16 DEF Next

LEMMA GotoAdmits ==
    ASSUME NEW next, Goto(next),
           next = "no" /\ quiet' =>
              Ignored(opts) \/ ~(Required(opts) \subseteq Holds(opts, account, live))
    PROVE  AdmitsUnlessIgnored'
<1>1. verdict' = "no" => next = "no"
  BY DEF Goto
<1>2. UNCHANGED <<opts, account, live>>
  BY DEF Goto
<1>3. /\ Required(opts)' = Required(opts)
      /\ Holds(opts, account, live)' = Holds(opts, account, live)
      /\ Ignored(opts)' = Ignored(opts)
  BY <1>2 DEF Required, Holds, NamedGroups, Ignored, ProvidedAuthGroups
<1>4. QED
  BY <1>1, <1>3 DEF AdmitsUnlessIgnored, AdmitsTheAdmissible

LEMMA AdmitsStep ==
    ASSUME ProviderInv, Next
    PROVE  AdmitsUnlessIgnored'
<1> DEFINE Short == Ignored(opts) \/ ~(Required(opts) \subseteq Holds(opts, account, live))
<1>1. /\ AskedSoFar /\ PassedInOrder /\ opts \in Accepted /\ account \in Accounts
      /\ quiet \in BOOLEAN /\ live \in BOOLEAN
      /\ at # "idle" => at \in Checks(opts)
  BY DEF ProviderInv, ProviderTypeOK, Accepted, PassedInOrder, Passed
<1>2. /\ opts \in Options /\ opts.provider \in {"github", "google", "gitlab", "microsoft"}
      /\ opts.provider # "gitlab" => ~opts.allusers
  BY <1>1, OptionsRead
<1>3. opts.allusers \in BOOLEAN /\ account.home \in BOOLEAN /\ account.audience \in BOOLEAN
  BY <1>1, <1>2 DEF Options, Accounts
<1>4. ASSUME NEW up \in BOOLEAN, Call(up) PROVE quiet' => quiet /\ up
  BY <1>1, <1>4 DEF Call
<1>5. CASE Valid
  BY <1>5 DEF Valid, AdmitsUnlessIgnored, AdmitsTheAdmissible
<1>6. CASE CheckWhitelist
  <2>1. AfterWhitelist # "no" /\ at = "whitelist"
    BY <1>6 DEF AfterWhitelist, CheckWhitelist
  <2>2. ~opts.allusers
    BY <1>1, <2>1, ChecksOf
  <2>3. CASE Goto(AfterWhitelist)
    BY <2>1, <2>3, GotoAdmits
  <2>4. ASSUME NEW up \in BOOLEAN, Call(up), opts.whitelist # {},
               Goto(IF up /\ account.name \in opts.whitelist THEN AfterWhitelist ELSE "no")
        PROVE  AdmitsUnlessIgnored'
    <3>1. account.name \notin opts.whitelist => Short
      BY <1>1, <1>3, <2>2, <2>4, Lacking
    <3>2. quiet' => up
      BY <1>4, <2>4
    <3>3. QED
      BY <2>1, <2>4, <3>1, <3>2, GotoAdmits
  <2>5. QED
    BY <1>6, <2>3, <2>4 DEF CheckWhitelist
<1>7. CASE CheckToken
  <2>1. Goto(IF live THEN AfterToken ELSE "no")
    BY <1>7 DEF CheckToken
  <2>2. ~live => Short
    BY <1>1, <1>3, Lacking
  <2>3. AfterToken = "no" => Short
    BY <1>2 DEF AfterToken, Ignored
  <2>4. QED
    BY <2>1, <2>2, <2>3, GotoAdmits
<1>8. CASE OrgUser
  BY <1>8, GotoAdmits DEF OrgUser
<1>9. CASE CheckOrg
  <2>1. PICK up \in BOOLEAN : Call(up) /\ Goto(IF IsMember(up) THEN "yes" ELSE "no")
    BY <1>9 DEF CheckOrg
  <2>2. at = "org" /\ opts.home /\ ~opts.allusers
    BY <1>1, <1>2, <1>9, ChecksOf DEF CheckOrg
  <2>3. quiet' => up /\ user = account.name
    BY <1>1, <1>4, <2>1, <2>2 DEF AskedSoFar
  <2>4. quiet' /\ ~IsMember(up) => ~account.home
    BY <2>3 DEF IsMember
  <2>5. ~account.home => Short
    BY <1>1, <1>3, <2>2, Lacking
  <2>6. QED
    BY <2>1, <2>4, <2>5, GotoAdmits
<1>10. CASE CheckTokeninfo
  <2>1. PICK up \in BOOLEAN : Call(up) /\ Goto(IF up /\ account.audience THEN "userinfo" ELSE "no")
    BY <1>10 DEF CheckTokeninfo
  <2>2. opts.provider = "google" /\ ~opts.allusers
    BY <1>1, <1>2, <1>10, ChecksOf DEF CheckTokeninfo
  <2>3. ~account.audience => Short
    BY <1>1, <1>3, <2>2, Lacking
  <2>4. QED
    BY <1>4, <2>1, <2>3, GotoAdmits
<1>11. CASE CheckUserinfo
  <2>1. PICK up \in BOOLEAN :
           Call(up) /\ Goto(IF up /\ (opts.home => account.home) THEN "yes" ELSE "no")
    BY <1>11 DEF CheckUserinfo
  <2>2. ~opts.allusers
    BY <1>1, <1>2, <1>11, ChecksOf DEF CheckUserinfo
  <2>3. ~(opts.home => account.home) => Short
    BY <1>1, <1>3, <2>2, Lacking
  <2>4. QED
    BY <1>4, <2>1, <2>3, GotoAdmits
<1>12. CASE GetUser
  <2>1. PICK up \in BOOLEAN : Call(up) /\ Goto(IF up THEN "whitelist" ELSE "no")
    BY <1>12 DEF GetUser
  <2>2. QED
    BY <1>4, <2>1, GotoAdmits
<1>13. CASE NoGroups
  BY <1>13, GotoAdmits DEF NoGroups
<1>14. ASSUME NEW g \in left, CheckGroupMembership(g) PROVE AdmitsUnlessIgnored'
  <2>1. PICK up \in BOOLEAN : Call(up) /\ Goto(AfterGroup(g, up /\ g \in account.groups))
    BY <1>14 DEF CheckGroupMembership
  <2>2. at = "groups" /\ ~opts.allusers
    BY <1>1, <1>14, ChecksOf DEF CheckGroupMembership
  <2>3. ASSUME AfterGroup(g, up /\ g \in account.groups) = "no", quiet' PROVE Short
    <3>1. left = {g} /\ ~(up /\ g \in account.groups)
      BY <2>3 DEF AfterGroup
    <3>2. quiet /\ g \notin account.groups
      BY <1>4, <2>1, <2>3, <3>1
    <3>3. /\ account.groups \cap ProvidedAuthGroups(opts) = {}
          /\ ProvidedAuthGroups(opts) # {}
      BY <1>1, <2>2, <3>1, <3>2 DEF AskedSoFar
    <3>4. CASE ~Ignored(opts)
      <4>1. ProvidedAuthGroups(opts) = NamedGroups(opts)
        BY <1>2, <3>4, GroupsAskedAbout
      <4>2. QED
        BY <1>1, <1>3, <2>2, <3>3, <4>1, Lacking
    <3>5. QED
      BY <3>4
  <2>4. QED
    BY <2>1, <2>3, GotoAdmits
<1>15. CASE VerifyTenant
  <2>1. PICK up \in BOOLEAN :
           /\ Call(up)
           /\ Goto(IF ~(up /\ account.home) THEN "no" ELSE
                   IF left = {} THEN "yes" ELSE "memberof")
    BY <1>15 DEF VerifyTenant
  <2>2. opts.home /\ ~opts.allusers
    BY <1>1, <1>2, <1>15, ChecksOf DEF VerifyTenant
  <2>3. ~account.home => Short
    BY <1>1, <1>3, <2>2, Lacking
  <2>4. QED
    BY <1>4, <2>1, <2>3, GotoAdmits
<1>16. CASE VerifyGroups
  <2>1. PICK up \in BOOLEAN :
           Call(up) /\ Goto(IF up /\ account.groups \cap left # {} THEN "yes" ELSE "no")
    BY <1>16 DEF VerifyGroups
  <2>2. at = "memberof" /\ ~opts.allusers
    BY <1>1, <1>2, <1>16, ChecksOf DEF VerifyGroups
  <2>3. left # {} /\ left = ProvidedAuthGroups(opts)
    BY <1>1, <2>2 DEF AskedSoFar
  <2>4. ASSUME account.groups \cap left = {} PROVE Short
    <3>1. CASE ~Ignored(opts)
      <4>1. ProvidedAuthGroups(opts) = NamedGroups(opts)
        BY <1>2, <3>1, GroupsAskedAbout
      <4>2. QED
        BY <1>1, <1>3, <2>2, <2>3, <2>4, <4>1, Lacking
    <3>2. QED
      BY <3>1
  <2>5. QED
    BY <1>4, <2>1, <2>4, GotoAdmits
<1>17. CASE Change
  BY <1>17 DEF Change, AdmitsUnlessIgnored, AdmitsTheAdmissible
<1>18. QED
  BY <1>5, <1>6, <1>7, <1>8, <1>9, <1>10, <1>11, <1>12, <1>13, <1>14, <1>15, <1>16, <1>17 DEF Next

LEMMA ProviderInvariance == Spec => []ProviderInv
<1>1. Init => ProviderInv
  <2> SUFFICES ASSUME Init PROVE ProviderInv
    OBVIOUS
  <2>1. ProviderTypeOK
    BY ProviderAssumption DEF Init, ProviderTypeOK
  <2>2. YesIsEarned /\ AdmitsUnlessIgnored /\ PassedInOrder /\ AskedSoFar
    BY DEF Init, YesIsEarned, AdmitsUnlessIgnored, AdmitsTheAdmissible, PassedInOrder, AskedSoFar
  <2>3. QED
    BY <2>1, <2>2 DEF ProviderInv
<1>2. ProviderInv /\ [Next]_vars => ProviderInv'
  <2> SUFFICES ASSUME ProviderInv, [Next]_vars PROVE ProviderInv'
    OBVIOUS
  <2>1. CASE Next
    BY <2>1, TypeStep, EarnedStep, AdmitsStep, PassedStep, AskedStep DEF ProviderInv
  <2>2. CASE UNCHANGED vars
    <3>1. UNCHANGED <<opts, account, live, changes, at, user, left, verdict, held, quiet>>
      BY <2>2 DEF vars
    <3>2. ProviderTypeOK'
      BY <3>1 DEF ProviderInv, ProviderTypeOK
    <3>3. YesIsEarned' /\ AdmitsUnlessIgnored'
      BY <3>1 DEF ProviderInv, YesIsEarned, AdmitsUnlessIgnored, AdmitsTheAdmissible, Ignored,
                  Required, Holds, NamedGroups, ProvidedAuthGroups
    <3>4. PassedInOrder'
      BY <3>1 DEF ProviderInv, PassedInOrder, Passed
    <3>5. AskedSoFar'
      BY <3>1 DEF ProviderInv, AskedSoFar
    <3>6. QED
      BY <3>2, <3>3, <3>4, <3>5 DEF ProviderInv
  <2>3. QED
    BY <2>1, <2>2
<1>3. QED
  BY <1>1, <1>2, PTL DEF Spec

\* Valid in the four packages under server/auth: whatever API calls fail and
\* however the account changes between two of them, each thing the options ask
\* for held at some moment of a call that says yes.
THEOREM YesEarned == Spec => []YesIsEarned
<1>1. ProviderInv => YesIsEarned
  BY DEF ProviderInv
<1>2. QED
  BY <1>1, ProviderInvariance, PTL

\* Valid turns away no account that has all the options ask for, when every API
\* call is answered and nothing changes, unless New accepted an option that
\* Valid ignores.
THEOREM AdmissibleAdmitted == Spec => []AdmitsUnlessIgnored
<1>1. ProviderInv => AdmitsUnlessIgnored
  BY DEF ProviderInv
<1>2. QED
  BY <1>1, ProviderInvariance, PTL
=============================================================================
