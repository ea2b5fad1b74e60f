------------------------------- MODULE MCOffice ------------------------------
(***************************************************************************)
(* The whole office for TLC: the scenes of the administrators' work around *)
(* the supply, and those of the rules that let a consignment go.           *)
(***************************************************************************)
EXTENDS MCFrontOffice, MCExportGate

officeVars == <<vars, exportVars>>
OfficeNext == \/ Next /\ UNCHANGED exportVars
              \/ ExportNext /\ UNCHANGED vars
OfficeInit == \/ MCInit /\ NoExport
              \/ ExportInit /\ NoPacks /\ NoEnquiries /\ NoOps
OfficeSpec == OfficeInit /\ [][OfficeNext]_officeVars
=============================================================================
