-------------------------- MODULE MCPortalProcess ---------------------------
(***************************************************************************)
(* What one worker process of the portal answers.  The parts share nothing *)
(* but threads and the clock, so that the run explores one after the       *)
(* other: serving is what the process gets requests for.                   *)
(***************************************************************************)
EXTENDS KeyCache, FingerprintCache, Download, Amounts, Selection, TLC

VARIABLE serving

fingerprintVars == <<gateway, changed, _cache, page>>
vars == <<keyVars, fingerprintVars, downloadVars, amountVars, entries, serving>>

Init ==
  /\ KeyInit /\ FpInit /\ DownloadInit /\ SelectionInit
  /\ serving \in {"logins", "fingerprints", "downloads", "amounts", "usage", "selection"}
  /\ AmountInit
  /\ serving # "logins" => published = {CHOOSE k \in Kids : TRUE}
  /\ serving # "fingerprints" => gateway = Failure
  /\ serving # "usage" => usage = [spend |-> 0, cap |-> NoAmount]

Only(part) == serving = part /\ UNCHANGED serving

Logins == Only("logins") /\ KeyNext
          /\ UNCHANGED <<fingerprintVars, downloadVars, amountVars, entries>>
Fingerprints == Only("fingerprints") /\ FpNext
                /\ UNCHANGED <<published, since, cacheVars, call>>
                /\ UNCHANGED <<downloadVars, amountVars, entries>>
Releases == Only("downloads") /\ DownloadNext
             /\ UNCHANGED <<keyVars, fingerprintVars, amountVars, entries>>
Typing == Only("amounts") /\ (\E c \in Typed : Type(c))
          /\ UNCHANGED <<keyVars, fingerprintVars, downloadVars, entries>>
Usage == Only("usage") /\ Spend
         /\ UNCHANGED <<keyVars, fingerprintVars, downloadVars, entries>>
Selections == Only("selection") /\ SelectionNext
              /\ UNCHANGED <<keyVars, fingerprintVars, downloadVars, amountVars>>

Spec == Init /\ [][Logins \/ Fingerprints \/ Releases \/ Typing \/ Usage \/ Selections]_vars

Symmetry == Permutations(Threads) \cup Permutations(Builds)

=============================================================================
