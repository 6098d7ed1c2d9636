---------------------------- MODULE SGPruneProofs ----------------------------
(***************************************************************************)
(* Theorems about SGPrune for every set of groups, sources, documents and  *)
(* doors.  The invariant says what the documents are silent about, what an *)
(* adoption without faults found, which groups the prune knows, and what   *)
(* the prune has looked at so far.                                         *)
(***************************************************************************)
EXTENDS SGPrune, TLAPS

\* Documents are declarations, and an empty one is one.
LEMMA DocsTyped ==
  /\ Nothing \in Decl
  /\ \A d \in Configs \cup {Nothing} :
       /\ d \in Decl
       /\ \A r \in d.rules : r[1] \in d.groups \ {Jit} /\ r[2] \in d.groups \cup Cidrs \cup {Prefix}
BY ConfigsAssumption DEF Nothing, Decl

\* What is parsed is declared and not about the JIT group.
LEMMA ParsedDeclared ==
  ASSUME DocsInv, NEW found
  PROVE  /\ Parsed(found) \subseteq docs.rules
         /\ \A r \in Parsed(found) : r[1] # Jit
BY DocsTyped DEF Parsed, DocsInv

\* With the ids of all declared groups every declared rule is parsed, those of
\* prefix lists apart.
LEMMA AllParsed ==
  ASSUME DocsInv, NEW found, docs.groups \subseteq found, NEW r \in docs.rules, r[2] # Prefix
  PROVE  r \in Parsed(found)
<1>1. r[1] \in docs.groups /\ r[2] \in docs.groups \cup Cidrs \cup {Prefix}
  BY DocsTyped DEF DocsInv
<1> QED BY <1>1 DEF Parsed

\* The JIT group has no desired rules, so none of its rules is ever an orphan.
LEMMA JitHasNoDesired == ASSUME DocsInv PROVE DesiredSGRuleKeys(Jit) = {}
BY ParsedDeclared DEF DesiredSGRuleKeys

\* A rule that is desired by its source is a declared rule.
LEMMA DesiredDeclared ==
  ASSUME DocsInv, NEW r \in Rules, r[2] \in DesiredSGRuleKeys(r[1])
  PROVE  r \in docs.rules
<1>1. PICK p \in Parsed(ids) : p[1] = r[1] /\ p[2] = r[2]
  BY DEF DesiredSGRuleKeys
<1>2. p \in docs.rules /\ docs \in Decl
  BY <1>1, ParsedDeclared, DocsTyped DEF DocsInv
<1>3. p \in Rules
  BY <1>2 DEF Decl
<1>4. p = r
  BY <1>1, <1>3 DEF Rules
<1> QED BY <1>2, <1>4

LEMMA InitInv == Init => IInv
<1> SUFFICES ASSUME Init PROVE IInv
  OBVIOUS
<1>1. TypeOK
  BY DocsTyped DEF Init, TypeOK
<1>2. DocsInv
  BY DEF Init, DocsInv, Nothing
<1>3. AdoptInv /\ LookupInv /\ PruneInv
  BY DEF Init, AdoptInv, LookupInv, PruneInv
<1> QED BY <1>1, <1>2, <1>3 DEF IInv

\* Every action keeps the types.
LEMMA TypeStep == TypeOK /\ DocsInv /\ [Next]_vars => TypeOK'
<1> SUFFICES ASSUME TypeOK, DocsInv, [Next]_vars PROVE TypeOK'
  OBVIOUS
<1>d. docs.groups \subseteq Groups /\ docs.rules \subseteq Rules
      /\ state.groups \subseteq Groups /\ state.rules \subseteq Rules
  BY DEF TypeOK, Decl
<1>1. CASE UNCHANGED vars
  BY <1>1 DEF TypeOK, vars
<1>2. CASE Start
  BY <1>2, DocsTyped DEF Start, TypeOK
<1>3. CASE NewRunner
  BY <1>3, DocsTyped DEF NewRunner, TypeOK
<1>4. CASE Adopt
  <2>1. PICK found \in LookUps(docs.groups \cap exists) :
          \E g \in Imports(found), r \in Imports(Parsed(found) \cap live) :
            state' = [groups |-> state.groups \cup g, rules |-> state.rules \cup r]
    BY <1>4 DEF Adopt
  <2>2. found \subseteq Groups
    BY <1>d DEF LookUps
  <2>3. PICK g \in Imports(found), r \in Imports(Parsed(found) \cap live) :
          state' = [groups |-> state.groups \cup g, rules |-> state.rules \cup r]
    BY <2>1
  <2>4. g \subseteq Groups /\ r \subseteq Rules
    BY <2>2, <2>3 DEF Imports, TypeOK
  <2>5. state' \in Decl
    BY <1>d, <2>3, <2>4 DEF Decl
  <2> QED BY <1>4, <2>5 DEF Adopt, TypeOK
<1>5. CASE TfApply
  <2>1. exists' \subseteq Groups /\ live' \subseteq Rules
    BY <1>5, <1>d DEF TfApply, TypeOK
  <2> QED BY <1>5, <2>1 DEF TfApply, TypeOK
<1>6. CASE TfApplyFails
  <2>1. PICK g \in SUBSET (docs.groups \ exists), gone \in SUBSET (state.rules \ docs.rules),
             made \in SUBSET (docs.rules \ live) :
          /\ exists' = exists \cup g
          /\ live' = (live \ gone) \cup made
          /\ state' = [groups |-> state.groups \cup g, rules |-> (state.rules \ gone) \cup made]
    BY <1>6 DEF TfApplyFails
  <2>2. exists' \subseteq Groups /\ live' \subseteq Rules
    BY <1>d, <2>1 DEF TypeOK
  <2>3. state' \in Decl
    BY <1>d, <2>1 DEF Decl
  <2> QED BY <1>6, <2>2, <2>3 DEF TfApplyFails, TypeOK
<1>7. CASE Prune
  BY <1>7, <1>d DEF Prune, TypeOK, LookUps
<1>8. CASE Done
  BY <1>8 DEF Done, TypeOK
<1>9. CASE \E g \in Groups : Describe(g)
  <2>1. PICK g \in Groups : Describe(g)
    BY <1>9
  <2>2. orphans' \subseteq Rules
    BY <2>1 DEF Describe, RulesToRevoke, TypeOK
  <2> QED BY <2>1, <2>2 DEF Describe, TypeOK
<1>10. CASE \E r \in Rules : Revoke(r)
  BY <1>10 DEF Revoke, TypeOK
<1>11. CASE \E r \in Doors : OpenDoor(r)
  <2>1. PICK r \in Doors : OpenDoor(r)
    BY <1>11
  <2>2. r \in Rules
    BY DoorsAssumption DEF Rules, Sources
  <2> QED BY <2>1, <2>2 DEF OpenDoor, TypeOK
<1>12. CASE \E c \in Cidrs : Spi(c)
  <2>1. PICK c \in Cidrs : Spi(c)
    BY <1>12
  <2>2. <<Jit, c>> \in Rules
    BY <2>1 DEF Spi, TypeOK, Rules, Sources
  <2> QED BY <2>1, <2>2 DEF Spi, TypeOK
<1> QED BY <1>1, <1>2, <1>3, <1>4, <1>5, <1>6, <1>7, <1>8, <1>9, <1>10, <1>11, <1>12
        DEF Next, Runner

\* A step that leaves documents and ids alone leaves the desired rules alone.
LEMMA SameDesired ==
  ASSUME UNCHANGED <<docs, ids>>, NEW g
  PROVE  DesiredSGRuleKeys(g)' = DesiredSGRuleKeys(g)
BY DEF DesiredSGRuleKeys, Parsed

\* A rule ends at groups that exist, as no group goes that a remaining rule names.
LEMMA DocsStep == TypeOK /\ DocsInv /\ [Next]_vars => DocsInv'
<1> SUFFICES ASSUME TypeOK, DocsInv, [Next]_vars PROVE DocsInv'
  OBVIOUS
<1> USE DEF DocsInv
<1>1. CASE UNCHANGED vars
  BY <1>1 DEF vars
<1>2. CASE Start
  BY <1>2 DEF Start
<1>3. CASE NewRunner
  BY <1>3 DEF NewRunner, Nothing
<1>4. CASE Adopt
  <2>1. PICK found \in LookUps(docs.groups \cap exists) :
          \E g \in Imports(found), r \in Imports(Parsed(found) \cap live) :
            state' = [groups |-> state.groups \cup g, rules |-> state.rules \cup r]
    BY <1>4 DEF Adopt
  <2>2. PICK g \in Imports(found), r \in Imports(Parsed(found) \cap live) :
          state' = [groups |-> state.groups \cup g, rules |-> state.rules \cup r]
    BY <2>1
  <2>3. r \subseteq Parsed(found)
    BY <2>2 DEF Imports
  <2>4. \A x \in state'.rules : x[1] # Jit
    BY <2>2, <2>3, ParsedDeclared
  <2> QED BY <1>4, <2>4 DEF Adopt
<1>5. CASE TfApply
  <2>1. \A r \in docs.rules : /\ r[1] \in docs.groups \ {Jit}
                              /\ r[2] \in Groups => r[2] \in docs.groups
    BY DocsTyped, SourcesAssumption
  <2>2. \A r \in live \ state.rules : r[1] \notin Dropped => r[2] \notin Dropped
    BY <1>5 DEF TfApply, InUse
  <2>3. \A r \in live' : r[1] \in exists' /\ (r[2] \in Groups => r[2] \in exists')
    BY <1>5, <2>1, <2>2 DEF TfApply
  <2> QED BY <1>5, <2>1, <2>3 DEF TfApply
<1>6. CASE TfApplyFails
  <2>1. PICK g \in SUBSET (docs.groups \ exists), gone \in SUBSET (state.rules \ docs.rules),
             made \in SUBSET (docs.rules \ live) :
          /\ \A r \in made : {r[1], r[2]} \cap docs.groups \subseteq exists \cup g
          /\ exists' = exists \cup g
          /\ live' = (live \ gone) \cup made
          /\ state' = [groups |-> state.groups \cup g, rules |-> (state.rules \ gone) \cup made]
    BY <1>6 DEF TfApplyFails
  <2>2. \A r \in docs.rules : /\ r[1] \in docs.groups \ {Jit}
                              /\ r[2] \in Groups => r[2] \in docs.groups
    BY DocsTyped, SourcesAssumption
  <2>3. \A r \in live' : r[1] \in exists' /\ (r[2] \in Groups => r[2] \in exists')
    BY <2>1, <2>2
  <2>4. \A r \in state'.rules : r[1] # Jit
    BY <2>1, <2>2
  <2> QED BY <1>6, <2>3, <2>4 DEF TfApplyFails
<1>7. CASE Prune
  BY <1>7 DEF Prune
<1>8. CASE Done
  BY <1>8 DEF Done
<1>9. CASE \E g \in Groups : Describe(g)
  BY <1>9 DEF Describe
<1>10. CASE \E r \in Rules : Revoke(r)
  BY <1>10 DEF Revoke
<1>11. CASE \E r \in Doors : OpenDoor(r)
  <2>1. PICK r \in Doors : OpenDoor(r)
    BY <1>11
  <2>2. r[2] \notin Groups
    BY DoorsAssumption, SourcesAssumption
  <2> QED BY <2>1, <2>2 DEF OpenDoor
<1>12. CASE \E c \in Cidrs : Spi(c)
  <2>1. PICK c \in Cidrs : Spi(c)
    BY <1>12
  <2>2. <<Jit, c>>[1] = Jit /\ <<Jit, c>>[2] \notin Groups
    BY SourcesAssumption
  <2>3. \A r \in live' : r \in live \/ r = <<Jit, c>>
    BY <2>1 DEF Spi
  <2> QED BY <2>1, <2>2, <2>3 DEF Spi
<1> QED BY <1>1, <1>2, <1>3, <1>4, <1>5, <1>6, <1>7, <1>8, <1>9, <1>10, <1>11, <1>12
        DEF Next, Runner

\* An adoption without faults finds every declared rule that is live.
LEMMA AdoptStep == TypeOK /\ DocsInv /\ AdoptInv /\ [Next]_vars => AdoptInv'
<1> SUFFICES ASSUME TypeOK, DocsInv, AdoptInv, [Next]_vars PROVE AdoptInv'
  OBVIOUS
<1>1. CASE UNCHANGED vars
  BY <1>1 DEF vars, AdoptInv
<1>2. CASE Adopt
  <2> SUFFICES ASSUME ~faulty
               PROVE  /\ docs.groups \cap exists \subseteq state'.groups
                      /\ \A r \in docs.rules \cap live : r \in state'.rules \/ r[2] = Prefix
    BY <1>2 DEF Adopt, AdoptInv
  <2> DEFINE Found == docs.groups \cap exists
  <2>1. state' = [groups |-> state.groups \cup Found, rules |-> state.rules \cup (Parsed(Found) \cap live)]
    BY <1>2 DEF Adopt, LookUps, Imports
  <2>2. ASSUME NEW r \in docs.rules \cap live, r[2] # Prefix
        PROVE  r \in Parsed(Found)
    <3>1. r[1] \in docs.groups /\ r[2] \in docs.groups \cup Cidrs
      BY <2>2, DocsTyped DEF DocsInv
    <3>2. r[1] \in exists /\ (r[2] \in docs.groups => r[2] \in exists)
      BY <2>2 DEF DocsInv, TypeOK, Decl
    <3> QED BY <2>2, <3>1, <3>2 DEF Parsed
  <2> QED BY <2>1, <2>2
<1>3. CASE \E r \in Doors : OpenDoor(r)
  BY <1>3 DEF OpenDoor, AdoptInv
<1>4. CASE \E c \in Cidrs : Spi(c)
  <2>1. PICK c \in Cidrs : Spi(c)
    BY <1>4
  <2>2. <<Jit, c>> \notin docs.rules
    <3>1. \A r \in docs.rules : r[1] # Jit
      BY DocsTyped DEF DocsInv
    <3> QED BY <3>1
  <2>3. live' \subseteq live \cup {<<Jit, c>>}
    BY <2>1 DEF Spi
  <2> QED BY <2>1, <2>2, <2>3 DEF Spi, AdoptInv
<1>5. CASE Start \/ NewRunner \/ TfApply \/ TfApplyFails \/ Prune \/ Done
  BY <1>5 DEF Start, NewRunner, TfApply, TfApplyFails, Prune, Done, AdoptInv
<1>6. CASE \E g \in Groups : Describe(g)
  BY <1>6 DEF Describe, AdoptInv
<1>7. CASE \E r \in Rules : Revoke(r)
  <2>1. PICK r \in Rules : Revoke(r)
    BY <1>7
  <2>2. live' \subseteq live
    BY <2>1 DEF Revoke
  <2> QED BY <2>1, <2>2 DEF Revoke, AdoptInv
<1> QED BY <1>1, <1>2, <1>3, <1>4, <1>5, <1>6, <1>7 DEF Next, Runner

\* The apply has made the declared groups, so the look-ups find them.
LEMMA LookupStep == LookupInv /\ [Next]_vars => LookupInv'
<1> SUFFICES ASSUME LookupInv, [Next]_vars PROVE LookupInv'
  OBVIOUS
<1> USE DEF LookupInv
<1>1. CASE UNCHANGED vars
  BY <1>1 DEF vars
<1>2. CASE Start \/ NewRunner \/ Adopt \/ TfApply \/ TfApplyFails \/ Done
  BY <1>2 DEF Start, NewRunner, Adopt, TfApply, TfApplyFails, Done
<1>3. CASE Prune
  BY <1>3 DEF Prune, LookUps
<1>4. CASE \E g \in Groups : Describe(g)
  BY <1>4 DEF Describe
<1>5. CASE \E r \in Rules : Revoke(r)
  BY <1>5 DEF Revoke
<1>6. CASE \E r \in Doors : OpenDoor(r)
  BY <1>6 DEF OpenDoor
<1>7. CASE \E c \in Cidrs : Spi(c)
  BY <1>7 DEF Spi
<1> QED BY <1>1, <1>2, <1>3, <1>4, <1>5, <1>6, <1>7 DEF Next, Runner

\* What a prune would revoke of a group: nothing of the JIT group, and nothing
\* declared where all ids are known.
LEMMA RevokedIsUndeclared ==
  ASSUME DocsInv, NEW g, DesiredSGRuleKeys(g) # {}
  PROVE  /\ g # Jit
         /\ docs.groups \subseteq ids => RulesToRevoke(g) \cap docs.rules = {}
<1>1. g # Jit
  BY JitHasNoDesired
<1>2. ASSUME docs.groups \subseteq ids, NEW r \in RulesToRevoke(g), r \in docs.rules
      PROVE  FALSE
  <2>1. r[1] = g /\ r[2] # Prefix /\ r[2] \notin DesiredSGRuleKeys(g)
    BY <1>2 DEF RulesToRevoke
  <2>2. r \in Parsed(ids)
    BY <1>2, <2>1, AllParsed
  <2> QED BY <2>1, <2>2 DEF DesiredSGRuleKeys
<1> QED BY <1>1, <1>2

\* A step that only adds rules which were opened by hand, or are the SPI's, and
\* takes away others keeps the record of what the prune has looked at.
LEMMA RestStep ==
  ASSUME PruneInv, DocsInv, UNCHANGED <<docs, pc, ids, todo, orphans, faulty>>,
         opened \subseteq opened',
         \A r \in live' : r \in live \/ r \in opened' \/ r[1] = Jit
  PROVE  PruneInv'
<1>1. \A g : DesiredSGRuleKeys(g)' = DesiredSGRuleKeys(g)
  BY SameDesired
<1>2. DesiredSGRuleKeys(Jit) = {}
  BY JitHasNoDesired
<1>3. (pc = "revoke" /\ ~faulty => \A g \in docs.groups \ todo :
         DesiredSGRuleKeys(g) # {} => \A r \in live : r[1] = g =>
           r \in docs.rules \cup opened \cup orphans \/ r[2] = Prefix)'
  <2> SUFFICES ASSUME pc = "revoke", ~faulty, NEW g \in docs.groups \ todo,
                      DesiredSGRuleKeys(g) # {}, NEW r \in live', r[1] = g
               PROVE  r \in docs.rules \cup opened' \cup orphans \/ r[2] = Prefix
    BY <1>1
  <2> QED BY <1>2 DEF PruneInv
<1> QED BY <1>3 DEF PruneInv

\* Orphans are never declared, and a group that was looked at has no other rule.
LEMMA PruneStep == TypeOK /\ DocsInv /\ LookupInv /\ PruneInv /\ [Next]_vars => PruneInv'
<1> SUFFICES ASSUME TypeOK, DocsInv, LookupInv, PruneInv, [Next]_vars PROVE PruneInv'
  OBVIOUS
<1>1. CASE UNCHANGED vars
  BY <1>1, RestStep DEF vars
<1>2. CASE Start \/ NewRunner \/ Adopt \/ TfApply \/ TfApplyFails \/ Done
  <2>1. orphans = {} /\ orphans' = {} /\ pc' # "revoke"
    BY <1>2 DEF Start, NewRunner, Adopt, TfApply, TfApplyFails, Done, PruneInv
  <2> QED BY <2>1 DEF PruneInv
<1>3. CASE Prune
  <2>1. orphans = {} /\ orphans' = {} /\ faulty' = faulty /\ docs' = docs
    BY <1>3 DEF Prune, PruneInv
  <2>2. ~faulty => todo' = docs.groups
    BY <1>3 DEF Prune, LookUps, LookupInv
  <2> QED BY <2>1, <2>2 DEF PruneInv
<1>4. CASE \E g \in Groups : Describe(g)
  <2>1. PICK g \in Groups : Describe(g)
    BY <1>4
  <2>2. UNCHANGED <<live, docs, pc, ids, opened, faulty>> /\ pc = "revoke" /\ orphans = {}
        /\ todo' = todo \ {g}
    BY <2>1 DEF Describe
  <2>3. \A h : DesiredSGRuleKeys(h)' = DesiredSGRuleKeys(h)
    BY <2>2, SameDesired
  <2>4. CASE orphans' = {} /\ (faulty \/ DesiredSGRuleKeys(g) = {})
    BY <2>2, <2>3, <2>4 DEF PruneInv
  <2>5. CASE orphans' = RulesToRevoke(g) /\ DesiredSGRuleKeys(g) # {}
    <3>1. \A r \in orphans' : r[1] # Jit
      BY <2>5, RevokedIsUndeclared DEF RulesToRevoke
    <3>2. ~(faulty /\ LookupsMayFail) => orphans' \cap docs.rules = {}
      BY <2>2, <2>5, RevokedIsUndeclared DEF LookupInv
    <3>3. ASSUME NEW r \in live, r[1] = g
          PROVE  r \in docs.rules \cup orphans' \/ r[2] = Prefix
      BY <2>5, <3>3, DesiredDeclared DEF RulesToRevoke, TypeOK
    <3>4. (pc = "revoke" /\ ~faulty => \A h \in docs.groups \ todo :
             DesiredSGRuleKeys(h) # {} => \A r \in live : r[1] = h =>
               r \in docs.rules \cup opened \cup orphans \/ r[2] = Prefix)'
      <4> SUFFICES ASSUME ~faulty, NEW h \in docs.groups \ (todo \ {g}),
                          DesiredSGRuleKeys(h) # {}, NEW r \in live, r[1] = h
                   PROVE  r \in docs.rules \cup opened \cup orphans' \/ r[2] = Prefix
        BY <2>2, <2>3
      <4>1. CASE h = g
        BY <3>3, <4>1
      <4>2. CASE h # g
        BY <2>2, <4>2 DEF PruneInv
      <4> QED BY <4>1, <4>2
    <3> QED BY <2>2, <3>1, <3>2, <3>4 DEF PruneInv
  <2> QED BY <2>1, <2>4, <2>5 DEF Describe
<1>5. CASE \E r \in Rules : Revoke(r)
  <2>1. PICK r \in Rules : Revoke(r)
    BY <1>5
  <2>2. UNCHANGED <<docs, pc, ids, todo, opened, faulty>> /\ orphans' = orphans \ {r}
        /\ r \in orphans /\ live' \subseteq live /\ (~faulty => r \notin live')
    BY <2>1 DEF Revoke
  <2>3. \A h : DesiredSGRuleKeys(h)' = DesiredSGRuleKeys(h)
    BY <2>2, SameDesired
  <2>4. (pc = "revoke" /\ ~faulty => \A h \in docs.groups \ todo :
           DesiredSGRuleKeys(h) # {} => \A x \in live : x[1] = h =>
             x \in docs.rules \cup opened \cup orphans \/ x[2] = Prefix)'
    <3> SUFFICES ASSUME pc = "revoke", ~faulty, NEW h \in docs.groups \ todo,
                        DesiredSGRuleKeys(h) # {}, NEW x \in live', x[1] = h
                 PROVE  x \in docs.rules \cup opened \cup orphans' \/ x[2] = Prefix
      BY <2>2, <2>3
    <3> QED BY <2>2 DEF PruneInv
  <2> QED BY <2>2, <2>4 DEF PruneInv
<1>6. CASE \E r \in Doors : OpenDoor(r)
  BY <1>6, RestStep DEF OpenDoor
<1>7. CASE \E c \in Cidrs : Spi(c)
  <2>1. PICK c \in Cidrs : Spi(c)
    BY <1>7
  <2>2. \A r \in live' : r \in live \/ r[1] = Jit
    BY <2>1 DEF Spi
  <2>3. UNCHANGED <<docs, pc, ids, todo, orphans, opened, faulty>>
    BY <2>1 DEF Spi
  <2> QED BY <2>2, <2>3, RestStep
<1> QED BY <1>1, <1>2, <1>3, <1>4, <1>5, <1>6, <1>7 DEF Next, Runner
-----------------------------------------------------------------------------
\* Types, the silence of the documents, what an adoption found and how far a prune
\* has come are invariant, whatever fails and whoever interferes.
THEOREM Invariance == Spec => []IInv
<1>1. Init => IInv
  BY InitInv
<1>2. IInv /\ [Next]_vars => IInv'
  BY TypeStep, DocsStep, AdoptStep, LookupStep, PruneStep DEF IInv
<1> QED BY <1>1, <1>2, PTL DEF Spec

\* A new runner's apply meets no duplicate: what it would create and exists already
\* is a group or rule the adoption could not see.
THEOREM AdoptionFindsAll == Spec => []AdoptionIsComplete
<1>1. IInv => AdoptionIsComplete
  <2> SUFFICES ASSUME IInv, pc = "apply", ~faulty, NEW x \in Colliding, x \in Rules,
                      x[2] # Prefix
               PROVE  x \in opened
    BY DEF AdoptionIsComplete
  <2> QED BY DEF IInv, AdoptInv, Colliding
<1> QED BY <1>1, Invariance, PTL

\* Where look-ups succeed, pruning never revokes a declared rule.
THEOREM DeclaredRulesSurvive == ASSUME ~LookupsMayFail PROVE Spec => DeclaredStays
<1> DEFINE Kept == pc = "revoke" => docs.rules \cap live \subseteq live'
<1>1. IInv /\ [Next]_vars => [Kept]_vars
  <2> SUFFICES ASSUME IInv, Next, pc = "revoke" PROVE docs.rules \cap live \subseteq live'
    BY DEF vars
  <2>1. \A r \in docs.rules : r[1] # Jit
    BY DocsTyped DEF IInv, DocsInv
  <2>2. CASE \E r \in Rules : Revoke(r)
    BY <2>2 DEF Revoke, IInv, PruneInv
  <2>3. CASE \E c \in Cidrs : Spi(c)
    <3>1. PICK c \in Cidrs : Spi(c)
      BY <2>3
    <3>2. \A r \in live : r \in live' \/ r = <<Jit, c>>
      BY <3>1 DEF Spi
    <3> QED BY <2>1, <3>2
  <2>4. CASE \E r \in Doors : OpenDoor(r)
    BY <2>4 DEF OpenDoor
  <2>5. CASE \E g \in Groups : Describe(g)
    BY <2>5 DEF Describe
  <2>6. CASE Start \/ NewRunner \/ Adopt \/ TfApply \/ TfApplyFails \/ Prune \/ Done
    BY <2>6 DEF Start, NewRunner, Adopt, TfApply, TfApplyFails, Prune, Done
  <2> QED BY <2>2, <2>3, <2>4, <2>5, <2>6 DEF Next, Runner
<1> QED BY <1>1, Invariance, PTL DEF DeclaredStays, Spec

\* No apply takes away a rule of the JIT group while the group lives.
THEOREM AdmittedStay == Spec => JitRulesStay
<1> DEFINE Kept == Runner /\ Jit \in exists' => \A c \in Cidrs : <<Jit, c>> \in live => <<Jit, c>> \in live'
<1>1. IInv /\ [Next]_vars => [Kept]_vars
  <2>1. ASSUME IInv, Runner, Jit \in exists', NEW j \in live, j[1] = Jit PROVE j \in live'
    <3>1. j \notin state.rules /\ j \notin orphans /\ Jit \in exists
      BY <2>1 DEF IInv, DocsInv, PruneInv
    <3>2. CASE TfApply
      BY <2>1, <3>1, <3>2 DEF TfApply, Dropped
    <3>3. CASE TfApplyFails
      BY <2>1, <3>1, <3>3 DEF TfApplyFails
    <3>4. CASE \E r \in Rules : Revoke(r)
      BY <2>1, <3>1, <3>4 DEF Revoke
    <3>5. CASE \E g \in Groups : Describe(g)
      BY <2>1, <3>5 DEF Describe
    <3>6. CASE Start \/ NewRunner \/ Adopt \/ Prune \/ Done
      BY <2>1, <3>6 DEF Start, NewRunner, Adopt, Prune, Done
    <3> QED BY <2>1, <3>2, <3>3, <3>4, <3>5, <3>6 DEF Runner
  <2>2. ASSUME IInv, Runner, Jit \in exists', NEW c \in Cidrs, <<Jit, c>> \in live
        PROVE  <<Jit, c>> \in live'
    <3>1. <<Jit, c>>[1] = Jit
      OBVIOUS
    <3> QED BY <2>1, <2>2, <3>1
  <2> QED BY <2>2
<1> QED BY <1>1, Invariance, PTL DEF JitRulesStay, Spec

\* An apply without faults ends with every earlier door shut.
THEOREM EarlierDoorsShut == Spec => DoorsShut
<1> DEFINE Shut == Done /\ ~faulty => \A g \in docs.groups : DesiredSGRuleKeys(g) # {} =>
                     \A r \in live : r[1] = g => r \in docs.rules \cup opened \/ r[2] = Prefix
<1>1. IInv /\ [Next]_vars => [Shut]_vars
  <2> SUFFICES ASSUME IInv, Done, ~faulty PROVE Shut
    OBVIOUS
  <2> QED BY DEF Done, IInv, PruneInv
<1> QED BY <1>1, Invariance, PTL DEF DoorsShut, Spec
=============================================================================
