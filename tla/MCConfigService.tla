--------------------------- MODULE MCConfigService ---------------------------
(***************************************************************************)
(* ConfigService with the inbounds of the templates: the full one has      *)
(* UUID and password protocols, vless.json.tpl VLESS and Hysteria2.        *)
(***************************************************************************)
EXTENDS ConfigService, TLC

MCProtocolTags == <<"vless-reality-in", "vmess-ws-in", "trojan-in", "hysteria2-in">>
MCUuidTags == {"vless-reality-in", "vmess-ws-in"}

MCOneTag == {"vless-reality-in"}
MCTwoTags == {"vless-reality-in", "hysteria2-in"}
MCFull == {"vless-reality-in", "vmess-ws-in", "hysteria2-in"}

MCNoTemplates == {}
MCGrowing == {MCFull}

UserSymmetry == Permutations(Users) \union Permutations(Outbounds)
SecretSymmetry == Permutations(Users) \union Permutations(Secrets)
=============================================================================
