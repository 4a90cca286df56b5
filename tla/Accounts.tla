------------------------------ MODULE Accounts ------------------------------
(***************************************************************************)
(* How an address becomes an account: invitations and their mails, sign-up *)
(* and realm creation, the confirmation links, and accounts_register,      *)
(* whose requests run side by side and write the realm, the user and the   *)
(* admin bit one after the other without a transaction.                    *)
(* Realms have subdomains (REALMS_HAVE_SUBDOMAINS).                        *)
(***************************************************************************)
EXTENDS Naturals, Sequences, SequencesExt, FiniteSets, FiniteSetsExt

CONSTANTS
  Realms, Emails,
  Founded,        \* realms that exist at the start; their first user is an admin
  Closed,         \* those of them that are by invitation only, at the start
  FirstUser,      \* that user's address, for each of them
  Dummy,          \* addresses that may be of mirror dummies, in one of the realms in Founded
  Allowed,        \* email_allowed_for_realm: the addresses allowed in each realm
  Registrars,     \* requests that run at the same time
  ONLY_SSO, OPEN_REALM_CREATION,
  MaxPreregs, MaxLinks, MaxDays, MaxChanges, MaxCrashes,   \* bounds
  LinkDays        \* validity_in_days

ASSUME AccountConstants ==
  /\ Founded \subseteq Realms
  /\ "none" \notin Realms /\ IsFiniteSet(Emails)
  /\ \A r \in Founded : FirstUser[r] \in Emails \cap Allowed[r]
  /\ \A r, s \in Founded : FirstUser[r] = FirstUser[s] => r = s
  /\ Dummy # {} => Founded # {}
  /\ \A r \in Realms \ Founded : Emails \subseteq Allowed[r]   \* restricted_to_domain is off in a new realm
  /\ ONLY_SSO \in BOOLEAN /\ OPEN_REALM_CREATION \in BOOLEAN

VARIABLES
  org,         \* Realm rows
  account,     \* UserProfile rows; the address is unique
  preregs,     \* PreregistrationUser rows, in the order of invited_at
  links,       \* Confirmation rows, by key
  invites,     \* queue invites
  reminders,   \* invitation reminders scheduled, by address
  creationKey, \* RealmCreationKey: unused, or deleted
  reg,         \* the accounts_register and create_realm requests in progress
  day, changes, crashes,   \* days, changes of realms and requests broken off so far
  joined       \* history: the PreregistrationUser that each new account came from

accountVars == <<org, account, preregs, links, invites, reminders, creationKey, reg, day, changes, crashes, joined>>

None == "none"
NoAccount == [realm |-> None, active |-> FALSE, dummy |-> FALSE, admin |-> FALSE]
NoRequest == [step |-> "idle", email |-> None, prereg |-> 0, realm |-> None, dummy |-> FALSE, first |-> FALSE]

AccountsInit ==
  /\ org = [r \in Realms |-> [exists |-> r \in Founded, deactivated |-> FALSE, invite_required |-> r \in Closed]]
  /\ \E dummies \in SUBSET Dummy : account = [e \in Emails |->
       IF \E r \in Founded : FirstUser[r] = e
       THEN [realm |-> CHOOSE r \in Founded : FirstUser[r] = e, active |-> TRUE, dummy |-> FALSE, admin |-> TRUE]
       ELSE IF e \in dummies THEN [realm |-> CHOOSE r \in Founded : TRUE, active |-> FALSE, dummy |-> TRUE, admin |-> FALSE]
       ELSE NoAccount]
  /\ preregs = <<>> /\ links = <<>> /\ invites = <<>> /\ reminders = {}
  /\ creationKey = TRUE
  /\ reg = [p \in Registrars |-> NoRequest]
  /\ day = 0 /\ changes = 0 /\ crashes = 0
  /\ joined = [e \in Emails |-> 0]

-----------------------------------------------------------------------------
(* The checks of addresses.                                                  *)

is_inactive(e) == ~account[e].active
user_email_is_unique(e) == account[e] = NoAccount

\* A mirror dummy must be inactive, any other account must not exist.
MayRegister(e) == IF account[e].dummy THEN is_inactive(e) ELSE user_email_is_unique(e)

email_allowed_for_realm(e, r) == e \in Allowed[r]

\* Whether the realm is by invitation only is left to the registration.
MutAnyRealm(e, host) == is_inactive(e) /\ org[host].exists /\ email_allowed_for_realm(e, host)

\* HomepageForm.clean_email, for the realm of the subdomain
clean_email(e, host) ==
  /\ is_inactive(e)
  /\ org[host].exists
  /\ ~org[host].invite_required
  /\ email_allowed_for_realm(e, host)

create_preregistration_user(e, realm_creation) ==
  [email |-> e, referred_by |-> None, realm_creation |-> realm_creation, status |-> 0]

\* "open" remembers that the realm of the subdomain took anybody when the link was made.
create_confirmation_link(prereg, host) ==
  [prereg |-> prereg, host |-> host, sent |-> day, open |-> host # None /\ ~org[host].invite_required]

Latest(e) == {i \in DOMAIN preregs : preregs[i].email = e /\ \A j \in DOMAIN preregs : preregs[j].email = e => j <= i}

-----------------------------------------------------------------------------
(* Where links come from.                                                    *)

NewLink(prereg, host) ==
  /\ Len(preregs) < MaxPreregs /\ Len(links) < MaxLinks
  /\ preregs' = Append(preregs, prereg)
  /\ links' = Append(links, create_confirmation_link(Len(preregs) + 1, host))

accounts_home(e, host) ==
  /\ clean_email(e, host)
  /\ NewLink(create_preregistration_user(e, FALSE), host)
  /\ UNCHANGED <<org, account, invites, reminders, creationKey, reg, day, changes, crashes, joined>>

\* A remote user without an account signs up; with ONLY_SSO an older row of the address is taken.
maybe_send_to_registration(e, host) ==
  /\ account[e] = NoAccount \/ account[e].dummy
  /\ clean_email(e, host)
  /\ IF ONLY_SSO /\ Latest(e) # {}
     THEN /\ Len(links) < MaxLinks
          /\ links' = Append(links, create_confirmation_link(Max(Latest(e)), host))
          /\ UNCHANGED preregs
     ELSE NewLink(create_preregistration_user(e, FALSE), host)
  /\ UNCHANGED <<org, account, invites, reminders, creationKey, reg, day, changes, crashes, joined>>

\* create_realm, on the root domain, checks the creation key ...
check_key_is_valid(p, e) ==
  /\ reg[p].step = "idle"
  /\ OPEN_REALM_CREATION \/ creationKey
  /\ user_email_is_unique(e)
  /\ reg' = [reg EXCEPT ![p] = [NoRequest EXCEPT !.step = "founding", !.email = e]]
  /\ UNCHANGED <<org, account, preregs, links, invites, reminders, creationKey, day, changes, crashes, joined>>

\* ... and deletes it once the mail is sent.
create_realm(p) ==
  /\ reg[p].step = "founding"
  /\ NewLink(create_preregistration_user(reg[p].email, TRUE), None)
  /\ creationKey' = FALSE
  /\ reg' = [reg EXCEPT ![p] = NoRequest]
  /\ UNCHANGED <<org, account, invites, reminders, day, changes, crashes, joined>>

\* Somebody of the realm, with addresses to invite.
json_invite_users(inviter, S) == account[inviter].active /\ ~org[account[inviter].realm].deactivated /\ S # {}

\* Every address is looked at before any row is made; one bad address stops them all.
do_invite_users(inviter, S) ==
  LET r == account[inviter].realm
      validated == SetToSeq({e \in S : MayRegister(e)})
  IN /\ json_invite_users(inviter, S)
     /\ \A e \in S : email_allowed_for_realm(e, r)
     /\ validated # <<>> /\ Len(preregs) + Len(validated) <= MaxPreregs
     /\ preregs' = preregs \o [i \in DOMAIN validated |->
          [email |-> validated[i], referred_by |-> r, realm_creation |-> FALSE, status |-> 0]]
     /\ invites' = invites \o [i \in DOMAIN validated |-> [email |-> validated[i], referrer |-> r]]
     /\ UNCHANGED <<org, account, links, reminders, creationKey, reg, day, changes, crashes, joined>>

\* ConfirmationEmailWorker finds the row by the address: with two invitations, the later one.
\* One link goes out at once, one with the reminder.
do_send_confirmation_email ==
  /\ invites # <<>> /\ Len(links) < MaxLinks
  /\ LET invite == Head(invites)
         link == create_confirmation_link(Max(Latest(invite.email)), invite.referrer)
     IN /\ links' = Append(links, link)
        /\ reminders' = reminders \cup {invite.email}
  /\ invites' = Tail(invites)
  /\ UNCHANGED <<org, account, preregs, creationKey, reg, day, changes, crashes, joined>>

-----------------------------------------------------------------------------
(* accounts_register.                                                        *)

\* get_object_from_key: the confirmation page, which leads to the form.
confirm(k) ==
  /\ day - links[k].sent <= LinkDays
  /\ preregs' = [preregs EXCEPT ![links[k].prereg].status = 1]
  /\ UNCHANGED <<org, account, links, invites, reminders, creationKey, reg, day, changes, crashes, joined>>

\* You join the realm of who invited you, or else that of the subdomain.
RealmOfRegistration(prereg, host) ==
  IF prereg.referred_by # None THEN prereg.referred_by
  ELSE IF prereg.realm_creation THEN None
  ELSE host

\* The checks of one request, made on what it reads at its start.
accounts_register(p, k) ==
  LET row == preregs[links[k].prereg]
      realm == RealmOfRegistration(row, links[k].host)
      read == [NoRequest EXCEPT !.prereg = links[k].prereg, !.email = row.email, !.dummy = account[row.email].dummy]
  IN /\ reg[p].step = "idle"
     /\ row.status = 1
     /\ realm # None => email_allowed_for_realm(row.email, realm) /\ ~org[realm].deactivated
     /\ MayRegister(row.email)
     /\ \/ /\ realm # None
           /\ reg' = [reg EXCEPT ![p] = [read EXCEPT !.step = "user", !.realm = realm]]
        \/ \E r \in Realms :            \* clean_realm_subdomain
             /\ realm = None /\ ~org[r].exists
             /\ reg' = [reg EXCEPT ![p] = [read EXCEPT !.step = "realm", !.realm = r]]
     /\ UNCHANGED <<org, account, preregs, links, invites, reminders, creationKey, day, changes, crashes, joined>>

\* A realm that appeared since the form was checked is taken as it is; a new one is by invitation.
do_create_realm(p) ==
  /\ reg[p].step = "realm"
  /\ org' = IF org[reg[p].realm].exists THEN org
            ELSE [org EXCEPT ![reg[p].realm] = [exists |-> TRUE, deactivated |-> FALSE, invite_required |-> TRUE]]
  /\ reg' = [reg EXCEPT ![p].step = "user"]
  /\ UNCHANGED <<account, preregs, links, invites, reminders, creationKey, day, changes, crashes, joined>>

\* The first is who founds the realm, asked when the realm is there already.
MutNewRealm(r) == ~org[r].exists

first_in_realm(r) == \A e \in Emails : account[e].realm # r

CountUsers(p) ==
  /\ reg[p].step = "user"
  /\ reg' = [reg EXCEPT ![p].step = "counted", ![p].first = first_in_realm(reg[p].realm)]
  /\ UNCHANGED <<org, account, preregs, links, invites, reminders, creationKey, day, changes, crashes, joined>>

\* The dummy the request read is activated, in the realm it has.
do_activate_user(e) == [account EXCEPT ![e].active = TRUE, ![e].dummy = FALSE]

create_user(e, r) == [account EXCEPT ![e] = [NoAccount EXCEPT !.realm = r, !.active = TRUE]]

\* The other rows of the address are marked as not used.
process_new_human_user(e, used) ==
  [i \in DOMAIN preregs |-> IF preregs[i].email = e /\ i # used THEN [preregs[i] EXCEPT !.status = 0] ELSE preregs[i]]

\* A row is made unless the address has one by now.
do_create_user(p) ==
  LET e == reg[p].email
      ok == reg[p].dummy \/ user_email_is_unique(e)
  IN /\ reg[p].step = "counted"
     /\ account' = IF ~ok THEN account ELSE IF reg[p].dummy THEN do_activate_user(e) ELSE create_user(e, reg[p].realm)
     /\ joined' = IF ok /\ ~reg[p].dummy THEN [joined EXCEPT ![e] = reg[p].prereg] ELSE joined
     /\ preregs' = IF ~ok \/ reg[p].dummy THEN preregs ELSE process_new_human_user(e, reg[p].prereg)
     /\ reg' = [reg EXCEPT ![p] = IF ok THEN [@ EXCEPT !.step = "created"] ELSE NoRequest]
     /\ UNCHANGED <<org, links, invites, reminders, creationKey, day, changes, crashes>>

do_change_is_admin(p) ==
  /\ reg[p].step = "created"
  /\ account' = IF reg[p].first THEN [account EXCEPT ![reg[p].email].admin = TRUE] ELSE account
  /\ reg' = [reg EXCEPT ![p] = NoRequest]
  /\ UNCHANGED <<org, preregs, links, invites, reminders, creationKey, day, changes, crashes, joined>>

\* The request raises, or its process is stopped, between two of its writes.
RequestDies(p) ==
  /\ reg[p].step # "idle" /\ crashes < MaxCrashes
  /\ crashes' = crashes + 1
  /\ reg' = [reg EXCEPT ![p] = NoRequest]
  /\ UNCHANGED <<org, account, preregs, links, invites, reminders, creationKey, day, changes, joined>>

-----------------------------------------------------------------------------
(* Around it.                                                                *)

ChangeRealm(r, row) ==
  /\ org[r].exists /\ changes < MaxChanges
  /\ org' = [org EXCEPT ![r] = row]
  /\ changes' = changes + 1
  /\ UNCHANGED <<account, preregs, links, invites, reminders, creationKey, reg, day, crashes, joined>>

\* do_set_realm_property(realm, 'invite_required', value)
SetInviteRequired(r) == ChangeRealm(r, [org[r] EXCEPT !.invite_required = ~@])

do_deactivate_realm(r) == ~org[r].deactivated /\ ChangeRealm(r, [org[r] EXCEPT !.deactivated = TRUE])

do_reactivate_realm(r) == org[r].deactivated /\ ChangeRealm(r, [org[r] EXCEPT !.deactivated = FALSE])

DayPasses ==
  /\ day < MaxDays
  /\ day' = day + 1
  /\ UNCHANGED <<org, account, preregs, links, invites, reminders, creationKey, reg, changes, crashes, joined>>

AccountsNext ==
  \/ \E e \in Emails, r \in Realms : accounts_home(e, r) \/ maybe_send_to_registration(e, r)
  \/ \E p \in Registrars, e \in Emails : check_key_is_valid(p, e)
  \/ \E p \in Registrars :
       create_realm(p) \/ do_create_realm(p) \/ CountUsers(p) \/ do_create_user(p) \/ do_change_is_admin(p) \/ RequestDies(p)
  \/ \E e \in Emails, S \in SUBSET Emails : do_invite_users(e, S)
  \/ do_send_confirmation_email
  \/ \E k \in DOMAIN links : confirm(k)
  \/ \E p \in Registrars, k \in DOMAIN links : accounts_register(p, k)
  \/ \E r \in Realms : SetInviteRequired(r) \/ do_deactivate_realm(r) \/ do_reactivate_realm(r)
  \/ DayPasses

AccountsSpec == AccountsInit /\ [][AccountsNext]_accountVars

-----------------------------------------------------------------------------

\* The realm invited the address, the address founds it, or it took anybody when the link was made.
MayJoin(e, r) ==
  \/ \E i \in DOMAIN preregs :
       preregs[i].email = e /\ (r = preregs[i].referred_by \/ (preregs[i].realm_creation /\ r \notin Founded))
  \/ \E k \in DOMAIN links : preregs[links[k].prereg].email = e /\ links[k].open /\ links[k].host = r

\* Nobody joins a realm uninvited: an account that was not a mirror dummy is in a realm that
\* invited the address, that it founded, or that took anybody when its link was made, however its
\* invitations, links and requests crossed; and its address is of a domain of the realm.
JoinedByRight ==
  \A e \in Emails : joined[e] # 0 => email_allowed_for_realm(e, account[e].realm) /\ MayJoin(e, account[e].realm)

\* A realm with users has an admin as soon as no registration is under way, if none broke off.
RealmHasAdmin ==
  crashes = 0 /\ (\A p \in Registrars : reg[p].step \notin {"counted", "created"}) =>
    \A r \in Realms : (\E e \in Emails : account[e].realm = r /\ account[e].active) =>
                      \E e \in Emails : account[e].realm = r /\ account[e].admin

\* Registration gives nobody what is not theirs and leaves no realm without somebody in charge.
RegistrationSound == JoinedByRight /\ RealmHasAdmin
=============================================================================
