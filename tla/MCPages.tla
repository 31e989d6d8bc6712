------------------------------ MODULE MCPages ------------------------------
(***************************************************************************)
(* Model checking the other pages of agent-studio and admin-console.  They *)
(* are bound to different records of different services, so that each      *)
(* behaviour has one of them at work, its scene; the rest stays as it was. *)
(***************************************************************************)
EXTENDS TenantScope, AgentPages, RegistryPages, GraphBuilder, ModelRoutes, CookbookPages,
        CookbookFiles, ManifestAssistant, SystemRecords, TenantAdmin, TLC

VARIABLE scene

PagesInit ==
  /\ scene \in {"tenant", "agent", "registry", "builder", "routes", "cookbooks",
               "files", "manifest", "records", "tenants"}
  /\ ScopeInit /\ AgentInit /\ RegistryInit /\ BuilderInit /\ RoutesInit
  /\ CookbookInit /\ CookbookFilesInit /\ ManifestInit /\ RecordsInit
  /\ TenantInit
  /\ scene # "tenant"   => tenant.shown = DefaultTenant
  /\ scene # "registry" => kind = "tools" /\ entry.status = "none"
  /\ scene # "builder"  => reader = PlatformTenant /\ executor = "direct"
  /\ scene # "routes"   => table = Unmade.read
  /\ scene # "tenants"  => \A t \in TenantIds : settings[t].status = "none"
  /\ scene # "records"  => catalogue.order = <<CHOOSE e \in Entries : TRUE>>

PagesNext ==
  /\ UNCHANGED scene
  /\ \/ /\ scene = "tenant"
        /\ UNCHANGED <<agentVars, registryVars, builderVars,
                       routeVars, cookbookVars, filesVars, manifestVars, recordsVars, tenantVars>>
        /\ ScopeNext
     \/ /\ scene = "agent"
        /\ UNCHANGED <<scopeVars, registryVars, builderVars,
                       routeVars, cookbookVars, filesVars, manifestVars, recordsVars, tenantVars>>
        /\ AgentNext
     \/ /\ scene = "registry"
        /\ UNCHANGED <<scopeVars, agentVars, builderVars,
                       routeVars, cookbookVars, filesVars, manifestVars, recordsVars, tenantVars>>
        /\ RegistryNext
     \/ /\ scene = "builder"
        /\ UNCHANGED <<scopeVars, agentVars, registryVars,
                       routeVars, cookbookVars, filesVars, manifestVars, recordsVars, tenantVars>>
        /\ BuilderNext
     \/ /\ scene = "routes"
        /\ UNCHANGED <<scopeVars, agentVars, registryVars,
                       builderVars, cookbookVars, filesVars, manifestVars, recordsVars, tenantVars>>
        /\ RoutesNext
     \/ /\ scene = "cookbooks"
        /\ UNCHANGED <<scopeVars, agentVars, registryVars,
                       builderVars, routeVars, filesVars, manifestVars, recordsVars, tenantVars>>
        /\ CookbookNext
     \/ /\ scene = "files"
        /\ UNCHANGED <<scopeVars, agentVars, registryVars,
                       builderVars, routeVars, cookbookVars, manifestVars, recordsVars, tenantVars>>
        /\ CookbookFilesNext
     \/ /\ scene = "manifest"
        /\ UNCHANGED <<scopeVars, agentVars, registryVars,
                       builderVars, routeVars, cookbookVars, filesVars, recordsVars, tenantVars>>
        /\ ManifestNext
     \/ /\ scene = "records"
        /\ UNCHANGED <<scopeVars, agentVars, registryVars, builderVars,
                       routeVars, cookbookVars, filesVars, manifestVars, tenantVars>>
        /\ RecordsNext
     \/ /\ scene = "tenants"
        /\ UNCHANGED <<scopeVars, agentVars, registryVars, builderVars,
                       routeVars, cookbookVars, filesVars, manifestVars, recordsVars>>
        /\ TenantNext

(* The tabs are interchangeable: two of them are told by the set of what   *)
(* each has, a set of one when they have the same.                         *)
TabsView == {<<row[t], form[t], call[t]>> : t \in Tabs}

(* Nothing reads the cursor, the failure and the tools, nor the save that  *)
(* was served; of an answer that grows no more only its draft matters, of  *)
(* what a save was read from only whether the agent is that still, which   *)
(* an edit elsewhere, of a value of its own, ends.                         *)
PanelView ==
  <<panel.open, panel.ask, panel.busy, panel.draft,
    CASE wire = "open" /\ Len(panel.text) < MaxSections -> panel.text
      [] wire = "open" \/ panel.draft # NoDraft -> <<MaxSections, Extract(panel.text)>>
      [] OTHER -> <<>>>>

ManifestView ==
  <<PanelView, wire, applying, sheetForm, Carried, handEdits, update.at,
    IF update.at = "sent"
    THEN [f \in FormFields |->
            <<update.data[f], update.data[f] \notin Drafts \union {Typed}
                              /\ update.base[f] # record[f]>>]
    ELSE NoUpdate>>

(* A state is told from the others by its scene; the rest never changes.   *)
SceneView ==
  <<scene, CASE scene = "tenant" -> <<scopeVars>>
         [] scene = "agent" -> <<agentVars>>
         [] scene = "registry" -> <<kind, entry, TabsView>>
         [] scene = "builder" -> <<builderVars>>
         [] scene = "routes" -> <<routeVars>>
         [] scene = "cookbooks" -> <<cookbookVars>>
         [] scene = "files" -> <<filesVars>>
         [] scene = "manifest" -> <<ManifestView>>
         [] scene = "records" -> <<recordsVars>>
         [] scene = "tenants" -> <<tenantVars>>>>
=============================================================================
