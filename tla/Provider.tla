------------------------------ MODULE Provider ------------------------------
(***************************************************************************)
(* auth.Provider.Valid for the four providers under server/auth: whether   *)
(* the owner of a token may have a certificate is put together from        *)
(* several calls of the provider's API.  Each call is a step: it may fail, *)
(* and the account may change between two of them.                         *)
(*                                                                         *)
(* "home" is what an account belongs to as a whole: the GitHub             *)
(* organization, the Google domain or the Office 365 tenant.               *)
(***************************************************************************)
EXTENDS Integers

CONSTANTS
    Providers,   \* the providers considered, a set of their names
    Users,       \* user names (Google and Microsoft: email addresses)
    NoName,      \* "", the name when the API does not answer
    Groups,      \* group names
    NoGroup,     \* "", the group in a list that has none
    Inside,      \* <<g, h>>: group name g is a substring of group name h
    Unset,       \* an option that is not in the configuration file
    MaxChanges   \* bound: how often the account or the token changes

ASSUME ProviderAssumption ==
    /\ Providers \subseteq {"github", "google", "gitlab", "microsoft"}
    /\ NoName \notin Users /\ NoGroup \notin Groups
    /\ Unset # {} /\ Unset \notin Groups
    /\ Inside \subseteq Groups \X Groups
    /\ MaxChanges \in Nat

\* users_whitelist and provider_opts.  groups = {} is an empty string; group is
\* the deprecated option.
Options == [provider  : Providers,
            whitelist : SUBSET Users,
            home      : BOOLEAN,
            groups    : {Unset} \cup SUBSET Groups,
            group     : {Unset} \cup Groups,
            allusers  : BOOLEAN,
            siteurl   : BOOLEAN]

\* Only the options a provider reads are set.
Readable(o) ==
    /\ o.provider # "gitlab" => ~o.allusers /\ ~o.siteurl /\ o.group = Unset
    /\ o.provider = "gitlab" => ~o.home
    /\ o.provider \in {"github", "google"} => o.groups = Unset

NewGitlab(o) ==
    /\ o.allusers \/ o.groups \notin {Unset, {}} \/ o.whitelist # {}
    /\ o.allusers => o.siteurl

\* New returns no error.
New(o) == IF o.provider = "gitlab" THEN NewGitlab(o) ELSE o.home \/ o.whitelist # {}

\* strings.Split of an empty string is a list with one empty string.
Split(groups) == CASE groups = Unset -> {}
                   [] groups = {}    -> {NoGroup}
                   [] OTHER          -> groups

\* The deprecated group is added unless its name occurs in the groups option,
\* as a group or inside the name of one.
ProvidedAuthGroups(o) ==
    LET named == Split(o.groups)
        occurs(g) == \E h \in named : g = h \/ <<g, h>> \in Inside
    IN  named \cup {g \in Groups : g = o.group /\ ~occurs(g)}

\* audience: the token was issued to this client.
Accounts == [name : Users, home : BOOLEAN, groups : SUBSET Groups, audience : BOOLEAN]

VARIABLES
    opts,     \* the configuration of the provider
    account,  \* the account the token belongs to
    live,     \* token.Valid(): it is not empty and has not expired
    changes,  \* how often account or live changed
    at,       \* the check Valid comes to next, or "idle"
    user,     \* the user name github's Valid asks the membership of
    left,     \* the groups not asked about yet
    verdict,  \* what Valid returned last: "yes", "no"; "none" during a call
    held,     \* history: the conditions that held at some moment of the call
    quiet     \* history: no API call failed and nothing changed in the call

vars == <<opts, account, live, changes, at, user, left, verdict, held, quiet>>

-----------------------------------------------------------------------------
(***************************************************************************)
(* What the options ask of an account.                                     *)
(***************************************************************************)
NamedGroups(o) == (IF o.groups = Unset THEN {} ELSE o.groups)
                     \cup (IF o.group = Unset THEN {} ELSE {o.group})

Required(o) ==
    {"token"} \cup IF o.allusers THEN {} ELSE
        UNION {IF o.whitelist # {} THEN {"whitelist"} ELSE {},
               IF o.home THEN {"home"} ELSE {},
               IF NamedGroups(o) # {} THEN {"groups"} ELSE {},
               IF o.provider = "google" THEN {"audience"} ELSE {}}

Holds(o, a, l) ==
    {c \in {"token", "whitelist", "home", "groups", "audience"} :
        \/ c = "token" /\ l
        \/ c = "whitelist" /\ a.name \in o.whitelist
        \/ c = "home" /\ a.home
        \/ c = "groups" /\ a.groups \cap NamedGroups(o) # {}
        \/ c = "audience" /\ a.audience}

-----------------------------------------------------------------------------
Init ==
    /\ opts \in {o \in Options : Readable(o) /\ New(o)}
    /\ account \in Accounts
    /\ live \in BOOLEAN
    /\ changes = 0
    /\ at = "idle" /\ user = NoName /\ left = {}
    /\ verdict = "none" /\ held = {} /\ quiet = TRUE

Valid ==
    /\ at = "idle"
    /\ at' = IF opts.provider = "gitlab" THEN "token" ELSE "whitelist"
    /\ user' = NoName
    /\ left' = ProvidedAuthGroups(opts)
    /\ verdict' = "none"
    /\ held' = Holds(opts, account, live)
    /\ quiet' = TRUE
    /\ UNCHANGED <<opts, account, live, changes>>

\* On to the next check, or out with an answer.
Goto(next) ==
    /\ at' = IF next \in {"yes", "no"} THEN "idle" ELSE next
    /\ verdict' = IF next \in {"yes", "no"} THEN next ELSE "none"
    /\ UNCHANGED <<opts, account, live, changes, held>>

\* A call of the API (external).  The oauth2 client sends no invalid token; that
\* it may renew an expired one by itself is left out.
Call(up) == (up => live) /\ quiet' = (quiet /\ up)

-----------------------------------------------------------------------------
(***************************************************************************)
(* The checks.                                                             *)
(***************************************************************************)
AfterWhitelist == IF opts.provider = "gitlab" THEN "groups" ELSE "token"

\* len(c.whitelist) > 0 && !c.whitelist[c.Username(ctx, token)]
CheckWhitelist ==
    /\ at = "whitelist"
    /\ \/ /\ opts.whitelist = {}
          /\ Goto(AfterWhitelist)
          /\ UNCHANGED quiet
       \/ \E up \in BOOLEAN :
             /\ opts.whitelist # {}
             /\ Call(up)
             /\ Goto(IF up /\ account.name \in opts.whitelist THEN AfterWhitelist ELSE "no")
    /\ UNCHANGED <<user, left>>

AfterToken ==
    CASE opts.provider = "github"    -> IF opts.home THEN "orguser" ELSE "yes"
      [] opts.provider = "google"    -> "tokeninfo"
      [] opts.provider = "gitlab"    -> IF opts.allusers THEN "yes" ELSE "user"
      [] opts.provider = "microsoft" -> IF opts.home THEN "tenant" ELSE "no"

\* !token.Valid()
CheckToken ==
    /\ at = "token"
    /\ Goto(IF live THEN AfterToken ELSE "no")
    /\ UNCHANGED <<user, left, quiet>>

\* GitHub: c.Username(ctx, token), asked a second time,
OrgUser ==
    /\ at = "orguser"
    /\ \E up \in BOOLEAN : /\ Call(up)
                           /\ user' = IF up THEN account.name ELSE NoName
    /\ Goto("org")
    /\ UNCHANGED left

\* Variant: an API error does not count against the user.
IsMemberUnlessDenied(up) == user = account.name /\ (up => account.home)

\* After a failed Username the name is "", of which GitHub is taken to say no.
IsMember(up) == up /\ user = account.name /\ account.home

\* and Organizations.IsMember of that name.
CheckOrg ==
    /\ at = "org"
    /\ \E up \in BOOLEAN : Call(up) /\ Goto(IF IsMember(up) THEN "yes" ELSE "no")
    /\ UNCHANGED <<user, left>>

\* Google: svc.Tokeninfo,
CheckTokeninfo ==
    /\ at = "tokeninfo"
    /\ \E up \in BOOLEAN :
          Call(up) /\ Goto(IF up /\ account.audience THEN "userinfo" ELSE "no")
    /\ UNCHANGED <<user, left>>

\* and svc.Userinfo.
CheckUserinfo ==
    /\ at = "userinfo"
    /\ \E up \in BOOLEAN :
          Call(up) /\ Goto(IF up /\ (opts.home => account.home) THEN "yes" ELSE "no")
    /\ UNCHANGED <<user, left>>

\* GitLab: getUser,
GetUser ==
    /\ at = "user"
    /\ \E up \in BOOLEAN : Call(up) /\ Goto(IF up THEN "whitelist" ELSE "no")
    /\ UNCHANGED <<user, left>>

NoGroups ==
    /\ at = "groups"
    /\ left = {}
    /\ Goto("yes")
    /\ UNCHANGED <<user, left, quiet>>

\* Variant: the first group decides.
AfterFirstGroup(g, isMember) == IF isMember THEN "yes" ELSE "no"

AfterGroup(g, isMember) ==
    IF isMember THEN "yes" ELSE IF left = {g} THEN "no" ELSE "groups"

\* and checkGroupMembership, until one says yes.
CheckGroupMembership(g) ==
    /\ at = "groups"
    /\ \E up \in BOOLEAN :
          Call(up) /\ Goto(AfterGroup(g, up /\ g \in account.groups))
    /\ left' = left \ {g}
    /\ UNCHANGED user

\* Microsoft: verifyTenant,
VerifyTenant ==
    /\ at = "tenant"
    /\ \E up \in BOOLEAN :
          /\ Call(up)
          /\ Goto(IF ~(up /\ account.home) THEN "no" ELSE
                  IF left = {} THEN "yes" ELSE "memberof")
    /\ UNCHANGED <<user, left>>

\* and verifyGroups.
VerifyGroups ==
    /\ at = "memberof"
    /\ \E up \in BOOLEAN :
          Call(up) /\ Goto(IF up /\ account.groups \cap left # {} THEN "yes" ELSE "no")
    /\ UNCHANGED <<user, left>>

-----------------------------------------------------------------------------
\* The account is renamed, joins or leaves, or the token expires (external).
Change ==
    /\ changes < MaxChanges
    /\ changes' = changes + 1
    /\ \/ account' \in {a \in Accounts : a.audience = account.audience} /\ live' = live
       \/ account' = account /\ live' = FALSE
    /\ held' = held \cup Holds(opts, account', live')
    /\ quiet' = FALSE
    /\ UNCHANGED <<opts, at, user, left, verdict>>

Next ==
    \/ Valid
    \/ CheckWhitelist \/ CheckToken
    \/ OrgUser \/ CheckOrg
    \/ CheckTokeninfo \/ CheckUserinfo
    \/ GetUser \/ NoGroups \/ \E g \in left : CheckGroupMembership(g)
    \/ VerifyTenant \/ VerifyGroups
    \/ Change

Spec == Init /\ [][Next]_vars
-----------------------------------------------------------------------------
\* Valid says yes only if each thing the options ask for held at some moment of
\* the call, whatever API calls failed and however the account changed between
\* them: a provider that does not answer never lets anybody in.
YesIsEarned == verdict = "yes" => Required(opts) \subseteq held

\* An account that has all the options ask for is let in when every API call
\* is answered and nothing changes.
AdmitsTheAdmissible ==
    verdict = "no" /\ quiet => ~(Required(opts) \subseteq Holds(opts, account, live))

\* The options New accepts and Valid does not act on: Microsoft users without a
\* tenant, an empty groups option, a deprecated group inside another's name.
Ignored(o) ==
    \/ o.provider = "microsoft" /\ ~o.home
    \/ o.groups = {}
    \/ o.group # Unset /\ o.group \notin ProvidedAuthGroups(o)

\* The same, for the options Valid acts on.
AdmitsUnlessIgnored == Ignored(opts) \/ AdmitsTheAdmissible
=============================================================================
