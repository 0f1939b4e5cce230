--------------------------- MODULE MCProviderCall ---------------------------
(***************************************************************************)
(* Instances of ProviderCall for TLC: two calls of two tries each, and     *)
(* evidence of which all, or all but a large record, fits the budget.      *)
(***************************************************************************)
EXTENDS ProviderCall

Item(key, file, bytes) == [key |-> key, files |-> {file} \ {None}, bytes |-> bytes]
MCRecords == <<Item("candidate_change", "checkout", 2), Item("candidate_finding", "checkout", 3),
               Item("candidate_verification", None, 5), Item("selected_graph_context", None, 6)>>
MCWorkloads == <<[id |-> "checkout-pytest", phase |-> "candidate",
                  item |-> Item("workload:checkout-pytest", "tests", 2)],
                 [id |-> "checkout-k6", phase |-> "candidate",
                  item |-> Item("workload:checkout-k6", "load", 2)]>>
MCTexts == <<[kind |-> "diff", item |-> Item("candidate_diff", "checkout", 4)],
             [kind |-> "file_content", item |-> Item("repository_text:1", "store", 1)]>>

Plain == [consistent |-> TRUE, records |-> MCRecords, workloads |-> MCWorkloads, texts |-> MCTexts,
          selected |-> {"checkout-pytest", "checkout-k6"}, gaps |-> {}, unresolved |-> 0]
MCEvidences == {Plain, [Plain EXCEPT !.consistent = FALSE],
                [Plain EXCEPT !.workloads[1].phase = "baseline"],
                [Plain EXCEPT !.selected = {"checkout-pytest", "other"}, !.texts = <<>>,
                              !.gaps = {"affected_endpoints"}, !.unresolved = 2]}
Budget(files, bytes, tokens) ==
  [max_files |-> files, max_bytes |-> bytes, max_tokens |-> tokens, max_unresolved |-> 1]
MCBudgets == {Budget(8, 100, 100), Budget(2, 100, 100), Budget(8, 16, 100), Budget(8, 100, 5)}
Input(e, b, p) ==
  [evidence |-> e, budget |-> b, provider |-> p]
MCInputs == {Input(e, b, "mock") : e \in MCEvidences, b \in MCBudgets}
              \union {Input(Plain, Budget(8, 100, 100), "given"),
                      Input(Plain, Budget(8, 100, 100), "gemini"),
                      Input(Plain, Budget(8, 16, 100), "gemini")}
=============================================================================
