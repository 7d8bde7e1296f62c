------------------------- MODULE MCSpecialistRunner -------------------------
EXTENDS SpecialistRunner

On(name, directory, mandatory) == [surface |-> name, path |-> directory, skills |-> mandatory]
targets ==
  {<<On("web", <<"/">>, <<>>)>>, <<On("web", <<"/">>, <<"house">>)>>,
   <<On("web", <<"/">>, <<"house", "story_contract">>), On("e2e", <<"e2e/">>, <<"tests", "house">>)>>,
   <<On("web", <<"apps", "web/">>, <<>>), On("e2e", <<"e2e/">>, <<>>)>>,
   <<On("web", <<"", "web/">>, <<>>)>>, <<On("web", <<"", "", "web/">>, <<>>), On("e2e", <<"e2e/">>, <<>>)>>}
revisions == {FirstBuild, [round |-> 1, roundCap |-> 3, pullRequestNumber |-> 7, reviewId |-> 9]}
optional == {"house", "tests"}

(* This dispatcher, one that predates the registry, and ones that forget a *)
(* variable.                                                               *)
drops == {{}, {"SURFACE_PATHS", "SURFACE_SKILLS"}, {"STORY_ID"}, {"MAX_TURNS"}, {"REVIEW_ID"},
          {"REVISION_ROUND"}}
unsets == {{}, {"FRAMEWORK_REF"}, {"CLAUDE_EFFORT"}, {"LINEAR_AGENT_API_KEY"}}
=============================================================================
