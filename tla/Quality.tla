------------------------------- MODULE Quality --------------------------------
(***************************************************************************)
(* Quality control of one tenant: QcMasterService and QcInspectionService. *)
(* Parameters, checklists of parameters, and inspections made by them.     *)
(*                                                                         *)
(* The goods receipts and production results that are inspected exist.     *)
(* Codes, names, categories, batches and quantities are left out.          *)
(***************************************************************************)
EXTENDS Transactions

CONSTANTS
    Parameters,     \* bound: ids of qc_parameters
    MinOf, MaxOf,   \* [Parameters -> Int], the limits of a numeric value
    Checklists,     \* bound: ids of qc_checklists, 1 .. n
    Forms,          \* the checklists a client creates: type, all, required
    Inspections,    \* bound: ids of qc_inspections, 1 .. n
    Answers,        \* the results a client sends: [checklist items -> values]
    DefectTypes

InspectionTypes == {"incoming", "final"}

ASSUME QualityConstants ==
    /\ MinOf \in [Parameters -> Int] /\ MaxOf \in [Parameters -> Int]
    /\ Checklists \subseteq Nat \ {0} /\ Inspections \subseteq Nat \ {0}
    /\ \A f \in Forms : /\ f.type \in InspectionTypes
                        /\ f.all \in (SUBSET Parameters) \ {{}}
                        /\ f.required \subseteq f.all
    /\ \A a \in Answers : DOMAIN a \subseteq Parameters /\ \A p \in DOMAIN a : a[p] \in Int

VARIABLES
    parameter,      \* qc_parameters: none, active, inactive
    checklist,      \* qc_checklists with their items
    inspection,     \* qc_inspections
    result,         \* qc_inspection_items: parameter -> is_within_spec
    defects         \* qc_defects of each inspection

qualityTables == <<parameter, checklist, inspection, result, defects>>

-----------------------------------------------------------------------------
(* An item of a checklist is known by its parameter: UNIQUE(checklist_id,  *)
(* parameter_id).                                                          *)
NoChecklist == [status |-> "none", type |-> "none", all |-> {}, required |-> {}]
NoInspection == [status |-> "none", checklist |-> 0]
NoResult == <<>>

ParameterLock(p) == <<"parameter", p>>
ChecklistLock(c) == <<"checklist", c>>
InspectionLock(i) == <<"inspection", i>>

InUse(p) == \E c \in Checklists : checklist[c].status = "active" /\ p \in checklist[c].all

-----------------------------------------------------------------------------
(* QcMasterService.                                                        *)
CreateParameter(r) ==
    \E p \in Parameters :
      /\ parameter[p] = "none"
      /\ Autocommit(r, ParameterLock(p))
      /\ parameter' = [parameter EXCEPT ![p] = "active"]
      /\ UNCHANGED <<checklist, inspection, result, defects>>

(* Whether the parameter is in use is read before the UPDATE.              *)
BeginDeactivate(r) ==
    \E p \in Parameters :
      /\ parameter[p] # "none" /\ ~ InUse(p)
      /\ Begin(r, "deactivate", {ParameterLock(p)}, [op |-> "deactivate", id |-> p])
      /\ UNCHANGED qualityTables

DeactivateParameter(r) ==
    /\ At(r, "deactivate")
    /\ parameter' = [parameter EXCEPT ![tx[r].id] = "inactive"]
    /\ End(r)
    /\ UNCHANGED <<checklist, inspection, result, defects>>

(* One transaction; that the parameters exist is all that is asked.        *)
CreateChecklist(r) ==
    \E f \in Forms :
      LET free == {c \in Checklists : checklist[c].status = "none"} IN
      /\ free # {}
      /\ \A p \in f.all : parameter[p] # "none"
      /\ Autocommit(r, ChecklistLock(Min(free)))
      /\ checklist' = [checklist EXCEPT ![Min(free)] =
                         [status |-> "active", type |-> f.type,
                          all |-> f.all, required |-> f.required]]
      /\ UNCHANGED <<parameter, inspection, result, defects>>

DeactivateChecklist(r) ==
    \E c \in Checklists :
      /\ checklist[c].status # "none"
      /\ Autocommit(r, ChecklistLock(c))
      /\ checklist' = [checklist EXCEPT ![c].status = "inactive"]
      /\ UNCHANGED <<parameter, inspection, result, defects>>

-----------------------------------------------------------------------------
(* QcInspectionService.create: the checklist and its type are read first.  *)
BeginInspection(r) ==
    \E c \in Checklists, type \in InspectionTypes :
      /\ checklist[c].status = "active" /\ checklist[c].type = type
      /\ Begin(r, "insertInspection", {}, [op |-> "inspect", checklist |-> c])
      /\ UNCHANGED qualityTables

InsertInspection(r) ==
    LET free == {i \in Inspections : inspection[i].status = "none"} IN
    /\ At(r, "insertInspection")
    /\ inspection' = IF free = {} THEN inspection
                     ELSE [inspection EXCEPT ![Min(free)] =
                             [status |-> "draft", checklist |-> tx[r].checklist]]
    /\ End(r)
    /\ UNCHANGED <<parameter, checklist, result, defects>>

-----------------------------------------------------------------------------
(* complete: one transaction that locks the inspection.  The answers are   *)
(* numeric; pass or fail, and a text, are values within the limits or not. *)
BeginComplete(r) ==
    \E i \in Inspections, a \in Answers, d \in SUBSET DefectTypes :
      /\ inspection[i].status # "none"
      /\ Begin(r, "lockInspection", {InspectionLock(i)},
               [op |-> "complete", id |-> i, answers |-> a, defects |-> d])
      /\ UNCHANGED qualityTables

(* Mutant: every inspection can be completed.                              *)
OpenInspectionAlways(i) == TRUE
OpenInspection(i) == inspection[i].status = "draft"

LockInspection(r) ==
    LET i == tx[r].id IN
    /\ At(r, "lockInspection")
    /\ IF OpenInspection(i) THEN Continue(r, "requiredItems", {}, tx[r]) ELSE End(r)
    /\ UNCHANGED qualityTables

RequiredItems(i) == checklist[inspection[i].checklist].required

(* The items must be items of some checklist (foreign key).                *)
CheckRequired(r) ==
    LET i == tx[r].id  sent == DOMAIN tx[r].answers IN
    /\ At(r, "requiredItems")
    /\ IF RequiredItems(i) \subseteq sent /\ \A p \in sent : parameter[p] # "none"
       THEN Continue(r, "commitInspection", {}, tx[r]) ELSE End(r)
    /\ UNCHANGED qualityTables

WithinSpec(p, value) == MinOf[p] <= value /\ value <= MaxOf[p]

CommitInspection(r) ==
    LET i == tx[r].id  a == tx[r].answers IN
    /\ At(r, "commitInspection")
    /\ result' = [result EXCEPT ![i] = [p \in DOMAIN a |-> WithinSpec(p, a[p])]]
    /\ defects' = [defects EXCEPT ![i] = @ \union tx[r].defects]
    /\ inspection' = [inspection EXCEPT ![i].status = "completed"]
    /\ End(r)
    /\ UNCHANGED <<parameter, checklist>>

(* cancel: read, then an UPDATE whose condition decides.                   *)
StillDraft(i) == inspection[i].status = "draft"

BeginCancel(r) ==
    \E i \in Inspections :
      /\ inspection[i].status \in {"draft", "cancelled"}
      /\ Begin(r, "cancelInspection", {InspectionLock(i)}, [op |-> "cancel", id |-> i])
      /\ UNCHANGED qualityTables

CancelInspection(r) ==
    LET i == tx[r].id IN
    /\ At(r, "cancelInspection")
    /\ inspection' = IF StillDraft(i) THEN [inspection EXCEPT ![i].status = "cancelled"]
                     ELSE inspection
    /\ End(r)
    /\ UNCHANGED <<parameter, checklist, result, defects>>

-----------------------------------------------------------------------------
QualityHandle(r) ==
    \/ CreateParameter(r) \/ BeginDeactivate(r) \/ CreateChecklist(r)
    \/ DeactivateChecklist(r) \/ BeginInspection(r) \/ BeginComplete(r) \/ BeginCancel(r)

QualityStatement(r) ==
    \/ DeactivateParameter(r) \/ InsertInspection(r)
    \/ LockInspection(r) \/ CheckRequired(r) \/ CommitInspection(r) \/ CancelInspection(r)

NoInspections ==
    /\ parameter = [p \in Parameters |-> "none"]
    /\ checklist = [c \in Checklists |-> NoChecklist]
    /\ inspection = [i \in Inspections |-> NoInspection]
    /\ result = [i \in Inspections |-> NoResult]
    /\ defects = [i \in Inspections |-> {}]

ChecklistRow == [status : {"active", "inactive"}, type : InspectionTypes,
                 all : SUBSET Parameters, required : SUBSET Parameters]
InspectionRow == [status : {"draft", "completed", "cancelled"}, checklist : Checklists]

QualityTypeOK ==
    /\ parameter \in [Parameters -> {"none", "active", "inactive"}]
    /\ checklist \in [Checklists -> ChecklistRow \union {NoChecklist}]
    /\ inspection \in [Inspections -> InspectionRow \union {NoInspection}]
    /\ defects \in [Inspections -> SUBSET DefectTypes]

(* A completed inspection has answers to everything its checklist          *)
(* requires, and a completed or cancelled one stays as it is, with its     *)
(* results and defects: completing twice, and cancelling meanwhile, change *)
(* nothing.  The tables keep their types.                                  *)
ConcludedInspectionsRest ==
    [][QualityTypeOK' /\ \A i \in Inspections :
         /\ inspection[i].status \in {"completed", "cancelled"} =>
              <<inspection[i], result[i], defects[i]>>'
                = <<inspection[i], result[i], defects[i]>>
         /\ inspection'[i].status = "completed" =>
              RequiredItems(i)' \subseteq DOMAIN result'[i]]_qualityTables

(***************************************************************************)
(* What each handler knows of the inspections, statement by statement.     *)
(***************************************************************************)
CreatedChecklists == {c \in Checklists : checklist[c].status # "none"}
Created == {i \in Inspections : inspection[i].status # "none"}

InspectionsRight ==
    /\ QualityTypeOK
    /\ result = [i \in Inspections |-> result[i]]
    /\ \A i \in Created : inspection[i].checklist \in CreatedChecklists
    /\ \A i \in Inspections : inspection[i].status = "completed" =>
         RequiredItems(i) \subseteq DOMAIN result[i]

Completion == [op : {"complete"}, id : Created, answers : Answers,
               defects : SUBSET DefectTypes]

CompleteKnows(r) ==
    LET i == tx[r].id IN
    /\ pc[r] \in {"lockInspection", "requiredItems", "commitInspection"}
    /\ tx[r] \in Completion
    /\ IF pc[r] = "lockInspection" THEN needs[r] = {InspectionLock(i)}
       ELSE InspectionLock(i) \in locks[r] /\ inspection[i].status = "draft"
    /\ pc[r] = "commitInspection" => RequiredItems(i) \subseteq DOMAIN tx[r].answers

QualityKnows(r) ==
    \/ CompleteKnows(r)
    \/ pc[r] = "deactivate" /\ tx[r] \in [op : {"deactivate"}, id : Parameters]
    \/ pc[r] = "insertInspection"
       /\ tx[r] \in [op : {"inspect"}, checklist : CreatedChecklists]
    \/ /\ pc[r] = "cancelInspection" /\ needs[r] = {InspectionLock(tx[r].id)}
       /\ tx[r] \in [op : {"cancel"}, id : Created]
=============================================================================
