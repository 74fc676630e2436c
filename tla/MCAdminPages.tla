------------------------------ MODULE MCAdminPages ------------------------------
(***************************************************************************)
(* The pages of the admin interface, and the public one behind an          *)
(* unsubscribe link.  They share nothing but the server, so a behaviour is *)
(* one page's: the others stay as they start.  Those who unsubscribe and   *)
(* the admin who looks at the list each meet what the other does as a      *)
(* change by somebody else.                                                *)
(***************************************************************************)
EXTENDS CampaignWizard, TestPanel, ListPage, OptOut

CONSTANTS A, B, l1

VARIABLE onScreen

pagesVars == <<onScreen, wizardVars, panelVars, listVars, optOutVars>>

OneList == {l1}
TwoTexts == {A, B}

\* Of two addresses one is found by a search of its own.
TwoSearches == {{1}, {1, 2}}

PagesInit ==
  /\ onScreen \in {"wizard", "panel", "list", "link", "suppressions"}
  /\ IF onScreen = "wizard" THEN WizardInit ELSE WizardStart([text |-> A, lists |-> {}])
  /\ PanelInit /\ ListInit /\ OptOutInit

PagesNext ==
  /\ UNCHANGED onScreen
  /\ \/ onScreen = "wizard" /\ WizardNext /\ UNCHANGED <<panelVars, listVars, optOutVars>>
     \/ onScreen = "panel"  /\ PanelNext  /\ UNCHANGED <<wizardVars, listVars, optOutVars>>
     \/ onScreen = "list"   /\ ListNext   /\ UNCHANGED <<wizardVars, panelVars, optOutVars>>
     \/ onScreen = "link"   /\ LinkNext   /\ UNCHANGED <<wizardVars, panelVars, listVars>>
     \/ onScreen = "suppressions" /\ SuppressionsNext /\ UNCHANGED <<wizardVars, panelVars, listVars>>

PagesSpec == PagesInit /\ [][PagesNext]_pagesVars
================================================================================
