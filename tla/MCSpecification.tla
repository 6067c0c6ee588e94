-------------------------- MODULE MCSpecification --------------------------
(* A specification with a listing and a completion, and what operators may *)
(* write into its fields.                                                  *)
EXTENDS Specification

Local(port) == <<"http://", "localhost">> \o port

MCBase ==
    [json |-> "typed", region |-> "named", table |-> [length |-> 3, clean |-> TRUE],
     partition_key |-> "clean", sort_key |-> None, endpoint_url |-> None,
     access_key_id |-> None, secret_access_key |-> None,
     max_page_size |-> 2, max_response_bytes |-> 1, timeout_ms |-> 1,
     uri |-> None, surface |-> "resource",
     uri_attribute |-> "named", page_size |-> 3, list_values |-> None,
     filter_expression |-> None, params |-> "cel",
     value_attribute |-> "named", key_condition |-> ":prefix",
     completion_values |-> None, max_results |-> None]

MCChoices ==
    [json |-> {"typed", "mistyped"}, region |-> {"named", "blank"},
     table |-> [length : {2, 3, 255, 256}, clean : BOOLEAN],
     partition_key |-> {"clean", "unfit"}, sort_key |-> {"clean", "unfit", None},
     endpoint_url |->
        {<<"https://">>, <<"https://", "vpc">>, <<"http://", "vpc">>, <<"ftp://">>,
         Local(<<>>), Local(<<":", "8000">>), Local(<<"/">>), Local(<<"er">>),
         <<"http://", "[", ":", ":", "1", "]", ":", "8000">>, None},
     access_key_id |-> {"given", "blank", "empty", None},
     secret_access_key |-> {"given", "blank", "empty", None},
     max_page_size |-> -1 .. 4, max_response_bytes |-> {0, 1},
     timeout_ms |-> {0, 1},
     uri |-> {"given", "blank", None}, surface |-> {"tool", "resource", "prompt"},
     uri_attribute |-> {"named", "blank", None}, page_size |-> -1 .. 4,
     list_values |-> {"filled", "empty", "broken", None},
     filter_expression |-> {"given", None},
     params |-> {"cel", "without_colon", "not_cel"},
     value_attribute |-> {"named", "blank", None},
     key_condition |-> {":prefix", ":prefixes", "other"},
     completion_values |-> {"filled", "empty", "broken", None},
     max_results |-> (-1 .. 4) \cup {None}]
=============================================================================
