----------------------------- MODULE Selection ------------------------------
(***************************************************************************)
(* What a download may be tagged with: the deployment's cost centers and   *)
(* their teams (selection.py), read at boot, offered by the form and       *)
(* checked against every request, which need not come from the form        *)
(* (views/downloads.py: download_page and the checks of download).         *)
(***************************************************************************)
EXTENDS Naturals, Sequences, SequencesExt

CONSTANTS
  Tokens,        \* clean_token, with no ":" and no "|" in them
  Odd,           \* tokens that are not
  Absent,        \* a parameter that is not given
  MaxEntries,    \* bounds of PORTAL_COST_CENTER_TEAMS
  MaxTeams

ASSUME SelectionAssumption ==
  /\ Tokens \cap Odd = {} /\ Absent \notin Tokens \cup Odd
  /\ MaxEntries \in Nat /\ MaxTeams \in Nat

VARIABLE entries     \* PORTAL_COST_CENTER_TEAMS, split at its commas and trimmed

\* cc: the text before the first ":", teams: what is after it between "|".
\* Empty teams are left out, as an empty entry is.
NoText == "no text"
Entries == [cc : Tokens \cup Odd \cup {NoText}, colon : BOOLEAN,
            teams : BoundedSeq(Tokens \cup Odd, MaxTeams)]

SelectionInit == entries = <<>>

\* The deployment's operator adds an entry.
Configure(e) ==
  /\ Len(entries) < MaxEntries
  /\ e.colon \/ e.teams = <<>>
  /\ entries' = Append(entries, e)

SelectionNext == \E e \in Entries : Configure(e)

SelectionSpec == SelectionInit /\ [][SelectionNext]_entries

-----------------------------------------------------------------------------
\* What boot raises on: an entry that is no "<cost-center>:<team>|<team>", a token
\* that cannot be quoted, a team listed twice, or a cost center.
Malformed(e) == ~e.colon \/ e.cc = NoText \/ e.teams = <<>>
Unclean(e) == ~({e.cc} \cup ToSet(e.teams) \subseteq Tokens)

\* Faulty: of two entries for a cost center the later one counts.
TwiceIn_Allowed(raw) == \E e \in ToSet(raw) : ~IsInjective(e.teams)

TwiceIn(raw) ==
  \/ \E e \in ToSet(raw) : ~IsInjective(e.teams)
  \/ \E i, j \in DOMAIN raw : i # j /\ raw[i].cc = raw[j].cc

Boots(raw) ==
  /\ raw # <<>> /\ ~TwiceIn(raw)
  /\ \A e \in ToSet(raw) : ~Malformed(e) /\ ~Unclean(e)

\* cost center -> its teams, in order; of two entries the later one would stay.
parse_cost_center_teams(raw) ==
  LET last(cc) == CHOOSE i \in DOMAIN raw :
        raw[i].cc = cc /\ \A j \in DOMAIN raw : raw[j].cc = cc => j <= i IN
  [cc \in {e.cc : e \in ToSet(raw)} |-> raw[last(cc)].teams]

cost_centers == DOMAIN parse_cost_center_teams(entries)
teams_of(cc) == ToSet(parse_cost_center_teams(entries)[cc])

validate_cost_center(cc) == cc \in Tokens /\ cc \in cost_centers

\* Faulty: any team of the configuration will do.
validate_selection_AnyTeam(team, cc) ==
  validate_cost_center(cc) /\ team \in UNION {teams_of(c) : c \in cost_centers}

validate_selection(team, cc) ==
  /\ team # Absent /\ validate_cost_center(cc)
  /\ team \in Tokens /\ team \in teams_of(cc)

PLATFORMS == {"windows", "linux"}
validate_platform(p) == p = Absent \/ p \in PLATFORMS
Platform(p) == IF p \in PLATFORMS THEN p ELSE "windows"

\* The form: its first stage offers the cost centers, its second the teams of one.
_render_form(cc, p) ==
  [cost_centers |-> cost_centers, cost_center |-> cc,
   teams |-> IF cc = Absent THEN {} ELSE teams_of(cc), platform |-> Platform(p)]

\* A cost center that is refused leads back to the first stage, with an error.
download_page(cc, p) ==
  [status |-> IF cc = Absent \/ validate_cost_center(cc) THEN 200 ELSE 400,
   form |-> _render_form(IF validate_cost_center(cc) THEN cc ELSE Absent, p)]

\* What is tagged and served, or the form again, with status 400.
download_selection(team, cc, p) ==
  IF validate_selection(team, cc) /\ validate_platform(p)
  THEN [status |-> 200, tags |-> <<team, cc, Platform(p)>>]
  ELSE [status |-> 400, tags |-> <<>>,
        form |-> _render_form(IF validate_cost_center(cc) THEN cc ELSE Absent, p)]

-----------------------------------------------------------------------------
\* Once the portal has booted, the form and the check mean the same and nothing of
\* the configuration is lost: what can be picked in the form's two stages is what
\* a request may carry, for the cost center it carries and in tokens that are
\* safe to quote, and is what the operator listed; and every request that is
\* refused leads to a form from which a download can be reached.
OfferedIsAccepted ==
  LET asked == Tokens \cup Odd \cup {Absent}
      served(cc, team, p) == download_selection(team, cc, p).status = 200
      sent == PLATFORMS \cup Odd \cup {Absent} IN
  Boots(entries) =>
    /\ \A cc \in asked, team \in asked :
         LET stage2 == download_page(cc, Absent) IN
         /\ served(cc, team, "linux") <=>
              cc # Absent /\ stage2.status = 200 /\ team \in stage2.form.teams
         /\ served(cc, team, "linux") <=>
              \E e \in ToSet(entries) : e.cc = cc /\ team \in ToSet(e.teams)
         /\ served(cc, team, "linux") => {cc, team} \subseteq Tokens
    /\ \A cc \in asked, team \in asked, p \in sent :
         LET answer == download_selection(team, cc, p) IN
         answer.status = 400 =>
           LET pick == IF answer.form.cost_center = Absent
                       THEN answer.form.cost_centers ELSE {answer.form.cost_center} IN
           \E c \in pick, t \in asked : served(c, t, answer.form.platform)

=============================================================================
