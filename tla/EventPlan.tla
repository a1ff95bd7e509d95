----------------------------- MODULE EventPlan -----------------------------
(***************************************************************************)
(* What a calendar request means, before anything is written: the checks   *)
(* of the familycal plugin (plugins/familycal/handler.py) and the plan     *)
(* hermes_calendar/event.py makes of what passes them.  Times are integers *)
(* on one clock; a person is named by a reference and found in the         *)
(* contacts, an ordered list of which the first match counts.              *)
(***************************************************************************)
EXTENDS Integers, Sequences, FiniteSets

CONSTANTS Ref,              \* what the agent may call somebody
          Address,          \* the references that are e-mail addresses
          Contacts,         \* the contacts file, in its order
          DefaultDuration   \* CALENDAR_DEFAULT_DURATION_MIN

NoValue == -1    \* a field that is absent, or whose type is wrong
Garbled == -2    \* a string that is no ISO date

\* _normalize_contacts: a contact without an address has the empty one; its
\* names are its name, the first word of it, and its aliases.
Contact == [email : Address \cup {""}, names : SUBSET Ref]

ASSUME PlanAssumption ==
  /\ Address \subseteq Ref
  /\ Contacts \in Seq(Contact)
  /\ DefaultDuration \in Nat \ {0}

Roles == {"participant", "fyi"}

\* The plugin's field checks: no request that fails them reaches the relay.
WellFormed(args) ==
  /\ args.title
  /\ args.start # NoValue
  /\ \A g \in args.guests : g.role \in Roles

Matches(ref, contact) == ref = contact.email \/ ref \in contact.names

\* resolve_attendee: the first contact that matches, or an address given
\* outright; <<>> when there is neither.
Resolve(ref) ==
  LET hits == {i \in DOMAIN Contacts : Matches(ref, Contacts[i])}
  IN  IF hits # {}
      THEN <<Contacts[CHOOSE i \in hits : \A j \in hits : i <= j].email>>
      ELSE IF ref \in Address THEN <<ref>> ELSE <<>>

\* Mutant: the else of `if role == "participant"' also invites the fyi people.
ToldWhoever(guests, role) ==
  {Resolve(g.ref)[1] : g \in {h \in guests : Resolve(h.ref) # <<>>}} \ {""}

\* Those of a role whom Google will tell: the resolved ones with an address.
Told(guests, role) ==
  {Resolve(g.ref)[1] : g \in {h \in guests : h.role = role /\ Resolve(h.ref) # <<>>}} \ {""}

\* _warnings lists the others: nobody is found, or nobody can be told.
Skipped(guests) == {g.ref : g \in {h \in guests : Resolve(h.ref) \in {<<>>, <<"">>}}}

\* parse_local_dt and the end of build_plan: the end is given, and after the
\* start, or follows from the duration.
Duration(args) == IF args.duration > 0 THEN args.duration ELSE DefaultDuration

End(args) == IF args.end = NoValue THEN args.start + Duration(args) ELSE args.end

Plannable(args) ==
  /\ args.start # Garbled
  /\ args.end # NoValue => args.end > args.start

\* build_plan, as far as the calendar's owner sees it.
EventOf(args) ==
  [start |-> args.start, end |-> End(args),
   required |-> Told(args.guests, "participant"),
   optional |-> Told(args.guests, "fyi"),
   skipped |-> Skipped(args.guests)]

-----------------------------------------------------------------------------
\* What a plan should be, said without the search: the addresses a reference
\* may stand for.
Candidates(ref) ==
  {Contacts[i].email : i \in {j \in DOMAIN Contacts : Matches(ref, Contacts[j])}}
    \cup ({ref} \cap Address)

PlanRight(args, plan) ==
  LET meant(role) == UNION {Candidates(g.ref) : g \in {h \in args.guests : h.role = role}}
  IN  /\ plan.end > plan.start
      /\ plan.required \subseteq meant("participant") \ {""}
      /\ plan.optional \subseteq meant("fyi") \ {""}
      /\ \A g \in args.guests :
           \/ g.ref \in plan.skipped
           \/ Candidates(g.ref) \cap (plan.required \cup plan.optional) # {}
=============================================================================
