--------------------------- MODULE MCComponentScoring ---------------------------
(* A policy and the evidence it judges, for TLC. *)
EXTENDS ComponentScoring

Item(n, d) == [value |-> <<n, d>>, at |-> "here"]
Foreign(n, d) == [value |-> <<n, d>>, at |-> "there"]
NoValue == [value |-> Undefined, at |-> "here"]

Some(n) == <<Item(n, 1), Item(1, 3), Item(n + 2, 1), Absent>>

Earlier == [value |-> <<1, 2>>, at |-> "a_year_before"]

Count(n, window, age) == [value |-> <<n, 1>>, window |-> window, age |-> age, at |-> "here"]

Happening(type, age, value, security) ==
    [type |-> type, age |-> age, value |-> value, security |-> security, at |-> "here"]

Bundles ==
    [financial_inflection |->
        [revenue_acceleration |-> <<Item(-1, 7), Item(5, 3), Absent>>,
         pat_acceleration |-> <<Item(0, 1), Item(2, 3), Absent>>,
         margin_expansion |-> <<Item(-4, 1), Item(5, 1)>>,
         current_roce |-> <<Item(1, 4), Item(3, 4), NoValue>>,
         prior_year_roce |-> <<Absent, Earlier, [Earlier EXCEPT !.value = <<1, 8>>], Item(1, 4)>>,
         growth_consistency |-> <<Item(1, 4), Item(1, 1)>>,
         growth_persistence |-> <<Item(0, 4), Item(3, 4), Foreign(1, 4)>>],
     business_quality |->
        [roce_level |-> Some(0), roe_level |-> Some(-3),
         margin_level |-> <<Absent, Item(1, 7), Foreign(2, 1)>>],
     balance_sheet |->
        [net_debt |-> <<Item(-3, 1), Item(0, 1), Item(4, 1), Absent>>,
         ttm_ebitda |-> <<Item(-1, 1), Item(2, 1), Item(3, 1), Absent>>,
         debt_to_equity |-> <<Item(0, 1), Item(2, 3), Item(-1, 1), NoValue>>,
         interest_coverage |-> <<Item(5, 3), Item(1, 7), NoValue>>],
     cash_flow_quality |->
        [cfo_conversion |-> Some(-1), cfo_to_ebitda |-> <<Absent, Item(1, 1), Item(7, 6)>>,
         receivable_days |-> <<Item(1, 1), Item(3, 2), Item(-1, 1), NoValue>>,
         trade_working_capital_change |-> <<Item(-2, 1), Item(2, 1), NoValue>>,
         ttm_revenue |-> <<Item(0, 1), Item(2, 1), Item(3, 1)>>],
     valuation |->
        [n \in {"market_cap_to_ttm_pat", "market_cap_to_total_equity", "market_cap_to_ttm_revenue",
                "simplified_ev_to_ttm_ebitda", "simplified_ev_to_ttm_revenue"} |->
            <<Item(1, 2), Item(7, 3), NoValue>>],
     market_structure |->
        [relative_strength |-> <<Item(-1, 1), Item(1, 3)>>, close_to_sma20 |-> <<Item(-2, 1), Item(1, 7)>>,
         sma20_to_sma60 |-> <<Item(0, 1), NoValue>>, volatility_ratio |-> <<Item(1, 2), Item(5, 4)>>,
         consolidation_range |-> <<Item(1, 6), Item(1, 3), NoValue>>,
         volume_ratio |-> <<Item(1, 1), Item(4, 3)>>,
         delivery_percentage |-> <<Item(1, 3), Item(2, 3), NoValue>>],
     low_market_attention |->
        [news_mentions_count |->
            <<Absent, Count(0, 7, 0), Count(1, 7, 1), Count(2, 5, 0), Count(0, 7, 2),
              [Count(0, 7, 0) EXCEPT !.value = Undefined]>>,
         analyst_coverage_count |-> <<Absent, Count(0, 0, 1), Count(3, 0, 3), Count(1, 0, 4)>>],
     business_catalyst |->
        [k \in 1..3 |->
            <<Absent, Happening("order_award", k, <<k, 3>>, Absent),
              Happening("commercial_commencement", 2, Undefined, "ours"),
              Happening("capacity_expansion", 1, IF k = 3 THEN Undefined ELSE <<1, 2>>, Absent)>>
            \o (CASE k = 1 -> <<Happening("capex_announcement", 0, Undefined, Absent)>>
                  [] k = 2 -> <<Happening("regulatory_approval", 4, Undefined, "other")>>
                  [] k = 3 -> <<Happening("regulatory_approval", 5, Undefined, Absent)>>)],
     confidence |->
        [features |-> << <<0, 7>>, <<5, 7>>, <<7, 7>> >>, reliability |-> << <<1, 3>>, <<1, 1>> >>,
         age |-> <<Absent, 0, 2, 7, 8>>, history |-> <<0, 2, 3, 5>>,
         confidence |-> <<Absent, <<2, 3>>, <<1, 1>> >>],
     eligibility |->
        [allowed |-> <<TRUE, FALSE>>, issue |-> <<FALSE, TRUE>>, history |-> <<0, 2, 3>>,
         new |-> <<FALSE, TRUE>>, features |-> << <<1, 2>>, <<2, 3>>, <<3, 3>> >>,
         traded |-> <<Absent, 4, 5>>]]

Falling == << <<-3, 0>>, <<0, 40>>, <<1, 40>>, <<2, 100>> >>
Slope == << <<-2, 0>>, <<1, 70>>, <<4, 100>> >>

Curves ==
    [c \in Weighed |-> [n \in Codes(c) |->
        IF n \in {"revenue_acceleration", "debt_to_equity", "roe_level"} THEN Falling ELSE Slope]]
    @@ [business_catalyst |->
          [order_value |-> << <<0, 0>>, <<1, 90>> >>, capacity_change |-> Slope,
           recency |-> << <<-4, 10>>, <<0, 100>> >>]]

Weights2 ==
    [financial_inflection |->
        [revenue_acceleration |-> 10, pat_acceleration |-> 10, margin_expansion |-> 40,
         roce_improvement |-> 20, growth_consistency |-> 0, growth_persistence |-> 20],
     business_quality |-> [roce_level |-> 35, roe_level |-> 35, margin_level |-> 30],
     balance_sheet |-> [net_debt_to_ebitda |-> 33, debt_to_equity |-> 33, interest_coverage |-> 34],
     cash_flow_quality |->
        [cfo_conversion |-> 15, cfo_to_ebitda |-> 0, receivable_days |-> 55,
         trade_working_capital_burden |-> 30],
     valuation |->
        [market_cap_to_ttm_pat |-> 30, market_cap_to_total_equity |-> 10,
         market_cap_to_ttm_revenue |-> 20, simplified_ev_to_ttm_ebitda |-> 30,
         simplified_ev_to_ttm_revenue |-> 10],
     market_structure |->
        [relative_strength |-> 15, close_to_sma20 |-> 15, sma20_to_sma60 |-> 15,
         volatility_ratio |-> 15, consolidation_range |-> 15, volume_ratio |-> 15,
         delivery_percentage |-> 10],
     low_market_attention |-> [news_mentions_count |-> 60, analyst_coverage_count |-> 40]]

Minima == [c \in Weighed |-> IF c = "low_market_attention" THEN 40 ELSE 45]

Limits ==
    [newsWindow |-> 7, newsAge |-> 1, analystAge |-> 3, eventAge |-> 4, commencement |-> 60,
     approval |-> 55, staleAfter |-> 7, history |-> 3]

Terms == [completeness |-> 30, source_reliability |-> 20, recency |-> 20, history |-> 15, evidence |-> 15]

Hard == [core |-> 66, history |-> 2, newListings |-> TRUE, traded |-> 5]
=============================================================================
