---------------------------- MODULE ServiceCatalogue ---------------------------
(***************************************************************************)
(* The service definitions the daemon matches scanned hosts against, one   *)
(* definition per file of server/services/definitions, under the name of   *)
(* its struct (of its file where two files use the same struct name).      *)
(***************************************************************************)
EXTENDS GenericServices

ActiveDirectory == Define("Active Directory", {"logo"},
  AllOf(<<Port(PortType.Ldap), Port(PortType.Samba), Port(PortType.Kerberos)>>))
ActiveMQ == Define("ActiveMQ", {"logo"}, Endpoint(NewTcp(8161), "/admin", "activemq", NoRange))
ActualBudget == Define("Actual Budget", {"logo"},
  Endpoint(NewTcp(5006), "/manifest.webmanifest", "@actual-app/web", NoRange))
AdguardHome == Define("Adguard Home", {"logo"},
  AllOf(<<AllOf(<<Port(PortType.DnsUdp), Port(PortType.DnsTcp)>>),
    Endpoint(PortType.Http, "/", "adguard home", NoRange)>>))
AmazonEcho == Define("Amazon Echo", {"logo"},
  AllOf(<<MacVendor("AMAZON"), Port(NewTcp(40317))>>))
AnsibleAWX == Define("AWX", {"logo"},
  Endpoint(PortType.Http, "/api/v2/", "awx", CodeRange(200, 300)))
APC == Define("APC", {"logo"}, Endpoint(PortType.Http, "/", "schneider electric", NoRange))
ArgoCD == Define("ArgoCD", {"logo"},
  Endpoint(PortType.Http8080, "/api/version", "argocd", NoRange))
Asterisk == Define("Asterisk", {"logo"},
  Endpoint(NewTcp(8088), "/httpstatus", "asterisk", NoRange))
AudioBookShelf == Define("AudioBookShelf", {"logo"}, Port(NewTcp(13378)))
Authentik == Define("Authentik", {"logo"},
  AnyOf(<<Endpoint(PortType.Http9000, "/", "window.authentik", NoRange),
    Endpoint(PortType.Https9443, "/", "window.authentik", NoRange)>>))
Autobrr == Define("Autobrr", {"logo"}, Port(NewTcp(7474)))
BackRest == Define("BackRest", {"logo"}, Endpoint(NewTcp(9898), "/", "backrest", NoRange))
Bacula == Define("Bacula", {"logo"}, Port(NewTcp(9101)))
Bamboo == Define("Bamboo", {"logo"}, Endpoint(NewTcp(8085), "/", "bamboo", NoRange))
Bazarr == Define("Bazarr", {"logo"}, Port(NewTcp(6767)))
BigBlueButton == Define("BigBlueButton", {"logo"},
  Endpoint(PortType.Http, "/bigbluebutton/api", "", CodeRange(200, 300)))
Bind9 == Define("Bind9", {}, AllOf(<<Port(PortType.DnsUdp), Port(NewTcp(8053))>>))
BitbucketServer == Define("Bitbucket Server", {"logo"},
  Endpoint(NewTcp(7990), "/", "bitbucket", NoRange))
Bitwarden == Define("Bitwarden", {"logo"},
  Endpoint(PortType.Http, "/api/config", "bitwarden", NoRange))
BookLore == Define("BookLore", {"logo"}, Endpoint(NewTcp(6060), "/", "booklore-app", NoRange))
Caddy == Define("Caddy", {"logo"},
  Endpoint(NewTcp(2019), "/reverse_proxy/upstreams", "num_requests", NoRange))
Cadvisor == Define("cAdvisor", {"logo"},
  Endpoint(PortType.Http8080, "/api/v1.0/containers/", "cadvisor", NoRange))
Ceph == Define("Ceph", {"logo"}, Endpoint(PortType.Http8080, "/", "ceph dashboard", NoRange))
ChromecastDevice == Define("Chromecast", {"logo"},
  AllOf(<<MacVendor("GOOGLE"), Port(NewTcp(8008)), Port(NewTcp(8009))>>))
Cleanuparr == Define("Cleanuparr", {"logo"}, Port(NewTcp(11011)))
Client == Define("Client", {}, NoPattern)
Cloudflared == Define("Cloudflared", {"logo"},
  Endpoint(PortType.Http, "/metrics", "cloudflared", NoRange))
ConfluenceServer == Define("Confluence", {"logo"},
  Endpoint(NewTcp(8090), "/", "confluence", NoRange))
CoolerControl == Define("CoolerControl", {"logo"},
  Endpoint(NewTcp(11987), "/", "coolercontrol", NoRange))
CrowdSec == Define("CrowdSec", {"logo"},
  Endpoint(PortType.Http8080, "/v1/allowlists", "cookie token is empty",
    CodeRange(401, 401)))
CUPS == Define("CUPS", {"logo"},
  AllOf(<<Port(PortType.Ipp), Endpoint(PortType.Http, "/", "cups", NoRange)>>))
Denodo == Define("Denodo", {"logo"},
  AllOf(<<Port(NewTcp(9990)), Port(NewTcp(9996)), Port(NewTcp(9090)), Port(NewTcp(9099))>>))
Discourse == Define("Discourse", {"logo"},
  Endpoint(PortType.Http, "/srv/status", "discourse", NoRange))
Docker == Define("Docker", {"logo"}, NoPattern)
DockerSwarm == Define("Docker Swarm", {"logo"},
  AllOf(<<Port(NewTcp(2377)), Port(NewTcp(7946))>>))
Domoticz == Define("Domoticz", {"logo"},
  Endpoint(PortType.Http8080, "/json.htm", "domoticz", NoRange))
DroneCI == Define("Drone", {"logo"},
  AllOf(<<Endpoint(PortType.Http, "/", "drone", NoRange),
    Endpoint(PortType.Http, "/api/user", "", NoRange)>>))
Duplicati == Define("Duplicati", {"logo"},
  Endpoint(NewTcp(8200), "/ngax/index.html", "duplicati", NoRange))
EeroGateway == Define("Eero Gateway", {"logo"}, AllOf(<<MacVendor("EERO"), IsGateway>>))
EeroRepeater == Define("Eero Repeater", {"logo"}, AllOf(<<MacVendor("EERO"), Not(IsGateway)>>))
ElasticAPM == Define("Elastic APM", {"logo"}, Endpoint(NewTcp(8200), "/", "apm", NoRange))
Emby == Define("Emby", {"logo"},
  Endpoint(NewTcp(8096), "/emby/System/Info/Public", "emby", NoRange))
ESPHome == Define("ESPHome", {"logo"}, Port(NewTcp(6052)))
FileZillaServer == Define("FileZilla Server", {"logo"},
  AllOf(<<Port(PortType.Ftp), Port(NewTcp(14147))>>))
FiosExtender == Define("Fios Extender", {"logo"},
  AllOf(<<Endpoint(PortType.Http, "/#/login/", "fios", NoRange), Not(IsGateway)>>))
FiosGateway == Define("Fios Gateway", {"logo"},
  AllOf(<<Endpoint(PortType.Http, "/#/login/", "fios", NoRange), IsGateway>>))
Forgejo == Define("Forgejo", {"logo"},
  Endpoint(PortType.Http3000, "/explore/repos", "powered by forgejo", NoRange))
Fortinet == Define("Fortinet", {"logo"}, Endpoint(PortType.Http, "/login", "fortinet", NoRange))
FreeIPA == Define("FreeIPA", {"logo"},
  Endpoint(PortType.Http, "/ipa/ui", "", CodeRange(200, 300)))
FreePBX == Define("FreePBX", {"logo"},
  AllOf(<<Endpoint(PortType.Http, "/", "freepbx", NoRange), Port(PortType.Sip)>>))
FreshRSS == Define("FreshRSS", {"logo"},
  Endpoint(PortType.Http, "/themes/manifest.json", "freshrss feed aggregator", NoRange))
Frigate == Define("Frigate", {"logo"},
  AnyOf(<<Endpoint(PortType.Https, "/", "<title>frigate</title>", NoRange),
    Endpoint(PortType.Http5000, "/", "<title>frigate</title>", NoRange)>>))
Gatus == Define("Gatus", {"logo"},
  Endpoint(PortType.Http8080, "/manifest.json", "gatus", NoRange))
Ghost == Define("Ghost", {"logo"}, Endpoint(NewTcp(2368), "/", "ghost", NoRange))
Gitea == Define("Gitea", {"logo"},
  Endpoint(PortType.Http3000, "/explore/repos", "powered by gitea", NoRange))
GitHubEnterprise == Define("GitHub", {"logo"}, NoPattern)
GitLab == Define("GitLab", {"logo"},
  AllOf(<<Header(AnyPort, "content-security-policy", "gitlab", NoRange),
    Endpoint(PortType.Http, "/", "gitlab", NoRange)>>))
GlanceApp == Define("Glance", {"logo"},
  Endpoint(PortType.Http8080, "/manifest.json", "glance", NoRange))
Glances == Define("Glances", {"logo"}, Endpoint(NewTcp(61208), "/", "glances", NoRange))
GoogleHome == Define("Google Home", {"logo"},
  AllOf(<<AnyOf(<<MacVendor("NEST"), MacVendor("GOOGLE")>>), AllOf(<<Port(NewTcp(8008)),
    Port(NewTcp(8009))>>)>>))
GoogleNestRepeater == Define("Google Nest repeater", {"logo"},
  AllOf(<<AnyOf(<<MacVendor("NEST"), MacVendor("GOOGLE")>>), Not(IsGateway),
    Endpoint(PortType.Http, "/", "nest wifi", NoRange)>>))
GoogleNestRouter == Define("Google Nest router", {"logo"},
  AllOf(<<AnyOf(<<MacVendor("NEST"), MacVendor("GOOGLE")>>), IsGateway,
    Endpoint(PortType.Http, "/", "nest wifi", NoRange)>>))
Grafana == Define("Grafana", {"logo"}, Endpoint(PortType.Http, "/", "grafana.com", NoRange))
Graylog == Define("Graylog", {"logo"},
  AllOf(<<Header(AnyPort, "content-security-policy", "graylog", NoRange),
    Endpoint(PortType.Http9000, "/", "graylog", NoRange)>>))
Grocy == Define("Grocy", {"logo"},
  AnyOf(<<Endpoint(PortType.Http, "/", "grocy.css", NoRange),
    Endpoint(PortType.Https, "/", "grocy.css", NoRange)>>))
HAProxy == Define("HAProxy", {"logo"}, Endpoint(NewTcp(8404), "/stats", "haproxy", NoRange))
Homarr == Define("Homarr", {"logo"}, Port(NewTcp(7575)))
HomeAssistant == Define("Home Assistant", {"logo"},
  Endpoint(NewTcp(8123), "/", "home assistant", NoRange))
Homepage == Define("Homepage", {"logo"},
  Endpoint(PortType.Http3000, "/site.webmanifest", "homepage", NoRange))
HpPrinter == Define("Hp Printer", {"logo"},
  AllOf(<<AnyOf(<<Endpoint(PortType.Http, "", "laserjet", NoRange),
    Endpoint(PortType.Http, "", "deskjet", NoRange),
    Endpoint(PortType.Http, "", "officejet", NoRange),
    Endpoint(PortType.Http8080, "", "laserjet", NoRange),
    Endpoint(PortType.Http8080, "", "deskjet", NoRange),
    Endpoint(PortType.Http8080, "", "officejet", NoRange)>>), AnyOf(<<Port(PortType.Ipp),
    Port(PortType.LdpTcp), Port(PortType.LdpUdp)>>)>>))
Huntarr == Define("Huntarr", {"logo"}, Port(NewTcp(9705)))
Icinga == Define("Icinga", {"logo"}, Endpoint(NewTcp(5665), "/v1", "icinga", NoRange))
Immich == Define("Immich", {"logo"}, Endpoint(NewTcp(2283), "/photos", "immich", NoRange))
Jellyfin == Define("Jellyfin", {"logo"},
  Endpoint(PortType.Http, "/System/Info/Public", "jellyfin", NoRange))
Jellyseerr == Define("Jellyseerr", {"logo"}, Endpoint(NewTcp(5055), "/", "jellyseerr", NoRange))
Jellystat == Define("Jellystat", {"logo"},
  AllOf(<<Endpoint(PortType.Http3000, "/", "jellystat", NoRange),
    Endpoint(PortType.Http3000, "/", "jellyfin stats for the masses", NoRange)>>))
Jenkins == Define("Jenkins", {"logo"}, Endpoint(PortType.Http8080, "/", "jenkins.io", NoRange))
JiraServer == Define("Jira", {"logo"},
  Endpoint(PortType.Http8080, "/rest/api/2/serverInfo", "jira", CodeRange(200, 300)))
JitsiMeet == Define("Jitsi Meet", {"logo"},
  Endpoint(PortType.Https8443, "/", "jitsilogo.png", NoRange))
Jotty == Define("Jotty", {"logo"},
  Endpoint(PortType.Http3000, "/site.webmanifest", "jotty", NoRange))
Jump == Define("Jump", {}, Endpoint(NewTcp(8123), "/", "jump", NoRange))
Karakeep == Define("Karakeep", {"logo"},
  Endpoint(PortType.Http3000, "/manifest.json", "karakeep", NoRange))
Keycloak == Define("Keycloak", {"logo"},
  Endpoint(PortType.Http8080, "/", "/keycloak/", NoRange))
Komga == Define("Komga", {"logo"}, Endpoint(NewTcp(25600), "/", "komga", NoRange))
Kong == Define("Kong", {"logo"}, Endpoint(NewTcp(8001), "/", "kong", NoRange))
Kubernetes == Define("Kubernetes", {"logo"},
  AllOf(<<Port(PortType.Kubernetes), AnyOf(<<Port(NewTcp(10250)), Port(NewTcp(10259)),
    Port(NewTcp(10257)), Port(NewTcp(10256))>>)>>))
Lidarr == Define("Lidarr", {"logo"},
  Endpoint(NewTcp(8686), "/Content/manifest.json", "lidarr", NoRange))
LinkStack == Define("LinkStack", {"logo"},
  AllOf(<<Header(AnyPort, "set-cookie", "linkstack_session", NoRange),
    Endpoint(PortType.Http8080, "/", "linkstack", NoRange)>>))
Loki == Define("Loki", {"logo"},
  AnyOf(<<Endpoint(NewTcp(3100), "/metrics", "loki_build_info", NoRange)>>))
Lubelogger == Define("Lubelogger", {"logo"},
  Endpoint(PortType.Http8080, "/", "garage - lubelogger", NoRange))
Mailcow == Define("mailcow", {"logo"},
  Endpoint(PortType.Https, "/api/v1/get/status", "mailcow", NoRange))
Mattermost == Define("Mattermost", {"logo"},
  Endpoint(NewTcp(8065), "/api/v4/system/ping", "", NoRange))
MeTube == Define("MeTube", {"logo"},
  Endpoint(PortType.Http8081, "/manifest.webmanifest", "metube", NoRange))
Mealie == Define("Mealie", {"logo"},
  AllOf(<<Endpoint(PortType.Http9000, "/", "mealie", NoRange),
    Endpoint(PortType.Http9000, "/", "recipe", NoRange)>>))
Memos == Define("Memos", {"logo"}, Endpoint(NewTcp(5230), "/explore", "memos", NoRange))
MinIO == Define("MinIO", {"logo"},
  Endpoint(PortType.Http9000, "/minio/health/live", "", CodeRange(200, 300)))
NATS == Define("NATS", {"logo"}, Endpoint(NewTcp(8222), "/varz", "", NoRange))
Neo4j == Define("Neo4j", {"logo"}, AnyOf(<<Port(NewTcp(7473)), Port(NewTcp(7687))>>))
NestProtect == Define("Nest Protect", {"logo"},
  AllOf(<<AnyOf(<<MacVendor("NEST"), MacVendor("GOOGLE")>>), Port(NewTcp(11095))>>))
NestThermostat == Define("Nest Thermostat", {"logo"},
  AllOf(<<AnyOf(<<MacVendor("NEST"), MacVendor("GOOGLE")>>), Port(NewTcp(9543))>>))
Netbootxyz == Define("Netbootxyz", {"logo"},
  Endpoint(NewTcp(61208), "/", "netbootxyz", NoRange))
NextCloud == Define("NextCloud", {"logo"},
  Endpoint(PortType.Http, "/core/css/server.css", "nextcloud gmbh", NoRange))
NginxProxyManager == Define("Nginx Proxy Manager", {"logo"},
  Endpoint(PortType.Http, "", "nginx proxy manager", NoRange))
Nomad == Define("Nomad", {"logo"}, Endpoint(NewTcp(4646), "/v1/status/leader", "", NoRange))
Ntfy == Define("Ntfy", {"logo"},
  AnyOf(<<Endpoint(PortType.Http, "/", "ntfy web", NoRange),
    Endpoint(NewTcp(2856), "/", "ntfy web", NoRange)>>))
NUT == Define("NUT", {"logo"}, Port(NewTcp(3493)))
Ollama == Define("Ollama", {"logo"}, Endpoint(NewTcp(11434), "/", "ollama is running", NoRange))
OpenMediaVault == Define("OpenMediaVault", {"logo"},
  AllOf(<<Port(PortType.Samba), Endpoint(PortType.Http, "/", "openmediavault", NoRange)>>))
OpenWebUI == Define("Open WebUI", {"logo"},
  Endpoint(PortType.Http8080, "/manifest.json", "open webui", NoRange))
OpenHAB == Define("openHAB", {"logo"},
  Endpoint(PortType.Http8080, "/rest/", "openhab", NoRange))
OpenShift == Define("OpenShift", {"logo"},
  Endpoint(PortType.Kubernetes, "/healthz", "openshift", NoRange))
OpnSense == Define("OPNsense", {"logo"},
  AllOf(<<AnyOf(<<Endpoint(PortType.Http, "/", "opnsense", NoRange),
    Endpoint(PortType.Https, "/", "opnsense", NoRange)>>), AnyOf(<<Port(PortType.DnsTcp),
    Port(PortType.DnsUdp), Port(PortType.Ssh), Port(PortType.Ntp),
    Port(PortType.Dhcp)>>)>>))
OracleDB == Define("Oracle Database", {"logo"}, Port(NewTcp(1521)))
Overseerr == Define("Overseerr", {"logo"},
  AllOf(<<Endpoint(NewTcp(5055), "/site.webmanifest", "overseerr", NoRange),
    Not(Endpoint(NewTcp(5055), "/", "jellyseerr", NoRange))>>))
OwnCloud == Define("ownCloud", {"logo"},
  Endpoint(PortType.Http, "/status.php", "owncloud", NoRange))
PaperlessNGX == Define("Paperless-NGX", {"logo"},
  Endpoint(NewTcp(8000), "/static/frontend/en-US/manifest.webmanifest", "paperless-ngx", NoRange))
PeaNut == Define("PeaNUT", {"logo"},
  Endpoint(PortType.Http3000, "/api/v1/info", "peanut", NoRange))
PfBlockerNg == Define("pfBlockerNG", {"logo"},
  AllOf(<<AllOf(<<Port(PortType.DnsTcp), Port(PortType.DnsUdp)>>),
    Endpoint(PortType.Http, "/pfblockerng", "pfblockerng", NoRange)>>))
PfSense == Define("pfSense", {"logo"},
  AllOf(<<Port(PortType.Ssh), Endpoint(PortType.Http, "/", "pfsense", NoRange)>>))
PhilipsHueBridge == Define("Philips Hue Bridge", {"logo"},
  AllOf(<<MacVendor("PHILIPS"), Endpoint(PortType.Http, "/", "hue", NoRange)>>))
PiHole == Define("Pi-Hole", {"logo"},
  AllOf(<<AnyOf(<<Port(PortType.DnsUdp), Port(PortType.DnsTcp)>>),
    Endpoint(PortType.Http, "/admin", "pi-hole", NoRange)>>))
Plex == Define("Plex Media Server", {"logo"},
  AnyOf(<<Endpoint(NewTcp(32400), "/web/index.html", "plex", NoRange),
    Header(NewTcp(32400), "x-plex-protocol", "1.0", CodeRange(401, 401))>>))
PocketID == Define("Pocket ID", {"logo"},
  Endpoint(NewTcp(1411), "/app.webmanifest", "pocket id", NoRange))
Portainer == Define("Portainer", {"logo"},
  AnyOf(<<Endpoint(PortType.Https9443, "/#!/auth", "portainer.io", NoRange),
    Endpoint(PortType.Http9000, "/", "portainer.io", NoRange)>>))
PowerDNS == Define("PowerDNS", {"logo"},
  AllOf(<<Port(PortType.DnsUdp), Port(PortType.DnsTcp), Port(PortType.Http8081)>>))
Prometheus == Define("Prometheus", {"logo"},
  AnyOf(<<Endpoint(PortType.Http, "/metrics", "prometheus", NoRange),
    Endpoint(PortType.Http, "/graph", "prometheus", NoRange)>>))
Promtail == Define("Promtail", {"logo"},
  AnyOf(<<Endpoint(NewTcp(9080), "/metrics", "promtail_build_info", NoRange),
    Endpoint(NewTcp(9080), "/targets", "promtail", NoRange)>>))
Prowlarr == Define("Prowlarr", {"logo"},
  Endpoint(NewTcp(3232), "/Content/Images/Icons/manifest.json", "prowlarr", NoRange))
Proxmox == Define("Proxmox VE", {"logo"},
  AnyOf(<<Endpoint(NewTcp(8006), "/", "proxmox", NoRange), Port(NewTcp(8006))>>))
ProxmoxBackupServer == Define("Proxmox Backup Server", {"logo"},
  AnyOf(<<Endpoint(NewTcp(8007), "/", "proxmox-backup-gui", NoRange), Port(NewTcp(8007))>>))
ProxmoxDatacenterManager == Define("Proxmox Datacenter Manager", {"logo"},
  Endpoint(PortType.Https8443, "/", "pdm-ui_bundle.js", NoRange))
Pulse == Define("Pulse", {"logo"}, Endpoint(NewTcp(7655), "/", "pulse", NoRange))
QBittorrent == Define("qBittorrent", {"logo"},
  AnyOf(<<Endpoint(PortType.Http8080, "/", "qbittorrent logo", NoRange),
    Endpoint(NewTcp(8090), "/", "qbittorrent logo", NoRange)>>))
QNAP == Define("QNAP NAS", {"logo"},
  AllOf(<<Port(PortType.Ftp), AnyOf(<<Endpoint(PortType.Http, "/", "qnap", NoRange),
    Endpoint(PortType.Http8080, "/", "qnap", NoRange)>>)>>))
Radarr == Define("Radarr", {"logo"},
  Endpoint(NewTcp(7878), "/Content/manifest.json", "radarr", NoRange))
Radicale == Define("Radicale", {"logo"},
  Endpoint(NewTcp(5232), "/.web/", "radicale web interface", NoRange))
Rancher == Define("Rancher", {"logo"}, Endpoint(PortType.Http, "/v3", "rancher", NoRange))
Restic == Define("Restic", {"logo"},
  AllOf(<<Port(NewTcp(8000)), Endpoint(PortType.Http, "/", "restic", NoRange)>>))
RingDoorbell == Define("Ring Doorbell", {"logo"},
  AllOf(<<MacVendor("AMAZON"), AnyOf(<<Port(NewTcp(8557)), Port(NewTcp(9998)),
    Port(NewTcp(19302)), Port(NewTcp(9999))>>)>>))
RocketChat == Define("Rocket.Chat", {"logo"},
  Endpoint(PortType.Http3000, "/api/info", "rocket", NoRange))
RokuDevice == Define("Roku Media Player", {"logo"},
  AllOf(<<MacVendor("ROKU"), Port(NewTcp(8060))>>))
SABnzbd == Define("SABnzbd", {"logo"},
  Endpoint(PortType.Http8080, "/Content/manifest.json", "sabnzbd", NoRange))
Seafile == Define("Seafile", {"logo"}, Endpoint(NewTcp(8000), "/api2/ping", "seafile", NoRange))
Sentry == Define("Sentry", {"logo"}, Endpoint(PortType.Http9000, "/api/0/", "sentry", NoRange))
Slskd == Define("Slskd", {"logo"},
  AllOf(<<Endpoint(NewTcp(5030), "/", "slskd", NoRange),
    Endpoint(NewTcp(5030), "/api/v0/session/enabled", "true", NoRange)>>))
Sonarr == Define("Sonarr", {"logo"},
  Endpoint(NewTcp(8989), "/Content/manifest.json", "sonarr", NoRange))
SonosSpeaker == Define("Sonos Speaker", {"logo"},
  AllOf(<<MacVendor("SONOS"), AnyOf(<<Port(PortType.Samba), Port(NewTcp(3445)),
    Port(NewTcp(1400)), Port(NewTcp(1410)), Port(NewTcp(1843)), Port(NewTcp(3400)),
    Port(NewTcp(3401)), Port(NewTcp(3500))>>)>>))
Spinnaker == Define("Spinnaker", {"logo"}, NoPattern)
Splunk == Define("Splunk", {"logo"}, Endpoint(NewTcp(8000), "/", "splunk", NoRange))
Syncthing == Define("Syncthing", {"logo"},
  AllOf(<<Endpoint(PortType.Http, "/", "syncthing", NoRange), Port(NewTcp(22000))>>))
Synology == Define("Synology DSM", {"logo"},
  AllOf(<<Endpoint(PortType.Http, "/", "synology", NoRange), Port(PortType.Ftp)>>))
Tasmota == Define("Tasmota", {"logo"}, NoPattern)
Tautulli == Define("Tautulli", {"logo"}, Endpoint(NewTcp(8181), "/", "tautulli", NoRange))
TeamCity == Define("TeamCity", {"logo"}, Endpoint(NewTcp(8111), "/", "teamcity", NoRange))
Tomcat == Define("Tomcat", {"logo"}, Endpoint(PortType.Http8080, "/", "apache tomcat", NoRange))
TpLinkEap == Define("TP-Link EAP", {"logo"},
  AllOf(<<MacVendor("TPLINK"), Endpoint(PortType.Http, "/", "tp-link", NoRange)>>))
Traefik == Define("Traefik", {"logo"},
  Endpoint(PortType.Http, "/dashboard", "traefik", NoRange))
TrueNAS == Define("TrueNAS", {"logo"},
  AllOf(<<Port(PortType.Samba), Endpoint(PortType.Http, "/", "truenas", NoRange)>>))
Tyk == Define("Tyk", {"logo"},
  Endpoint(PortType.Http8080, "/hello", "tyk", CodeRange(200, 300)))
Unbound == Define("Unbound DNS", {"logo"}, AllOf(<<Port(PortType.DnsUdp), Port(NewTcp(8953))>>))
UnifiAccessPoint == Define("Unifi Access Point", {"logo"},
  AllOf(<<MacVendor("UBIQUITI"), Endpoint(PortType.Http, "/", "unifi", NoRange)>>))
UnifiController == Define("UniFi Controller", {"logo"},
  Endpoint(PortType.Https8443, "/manage", "unifi", NoRange))
UptimeKuma == Define("UptimeKuma", {"logo"},
  Endpoint(PortType.Http, "/", "uptime kuma", NoRange))
VantageNetDaemon == Define("VantageNet Daemon", {"logo"},
  Endpoint(NewTcp(60073), "/api/health", "vantagenet", NoRange))
VantageNetServer == Define("VantageNet Server", {"logo"},
  Endpoint(NewTcp(60072), "/api/health", "vantagenet", NoRange))
Vault == Define("Vault", {"logo"}, Endpoint(NewTcp(8200), "/v1/sys/health", "vault", NoRange))
Vaultwarden == Define("Vaultwarden", {"logo"},
  Endpoint(NewTcp(8000), "/manifest.json", "vaultwarden web", NoRange))
Veeam == Define("Veeam", {"logo"}, Port(NewTcp(9392)))
Wazuh == Define("Wazuh", {"logo"}, Endpoint(NewTcp(55000), "/", "wazuh", NoRange))
WebService == Define("Web Service", {}, NoPattern)
WgDashboard == Define("WGDashboard", {"logo"},
  AllOf(<<Port(NewTcp(10086)), Not(SubnetIsType("VpnTunnel"))>>))
Wizarr == Define("Wizarr", {"logo"},
  Endpoint(NewTcp(5690), "/static/manifest.json", "wizarr", NoRange))
WordPress == Define("WordPress", {"logo"}, Endpoint(PortType.Http, "/", "wp-content", NoRange))
Zabbix == Define("Zabbix", {"logo"}, Endpoint(PortType.Http, "/zabbix", "zabbix", NoRange))
Zigbee2MQTT == Define("Zigbee2MQTT", {"logo"},
  Endpoint(PortType.Http8080, "/", "zigbee2mqtt windfront", NoRange))
Zipkin == Define("Zipkin", {}, Endpoint(NewTcp(9411), "/api/v2/services", "", NoRange))

---------------------------------------------------------------------------
(* ServiceDefinitionRegistry::all_service_definitions                      *)
AllServiceDefinitions ==
  { AccessPoint, ActiveDirectory, ActiveMQ, ActualBudget, AdguardHome, AmazonEcho, Amqp,
    AnsibleAWX, APC, ArgoCD, Asterisk, AudioBookShelf, Authentik, Autobrr, BackRest, Bacula,
    Bamboo, Bazarr, BigBlueButton, Bind9, BitbucketServer, Bitwarden, BookLore, Caddy,
    Cadvisor, Camera, Cassandra, Ceph, ChromecastDevice, Cleanuparr, Client, Cloudflared,
    ConfluenceServer, CoolerControl, CouchDB, CrowdSec, CUPS, Denodo, DhcpServer, Discourse,
    DnsServer, DockerContainer, Docker, DockerSwarm, Domoticz, DroneCI, Duplicati,
    EeroGateway, EeroRepeater, ElasticAPM, Elasticsearch, Emby, ESPHome, FileServer,
    FileZillaServer, FiosExtender, FiosGateway, Firewall, Forgejo, Fortinet, FreeIPA, FreePBX,
    FreshRSS, Frigate, Gateway, Gatus, Ghost, Gitea, GitHubEnterprise, GitLab, GlanceApp,
    Glances, GoogleHome, GoogleNestRepeater, GoogleNestRouter, Grafana, Graylog, Grocy,
    HAProxy, Homarr, HomeAssistant, Homepage, HpPrinter, Huntarr, Icinga, Immich, InfluxDB,
    Iot, Jaeger, Jellyfin, Jellyseerr, Jellystat, Jenkins, JiraServer, JitsiMeet, Jotty, Jump,
    Kafka, Karakeep, Kerberos, Keycloak, Komga, Kong, Kubernetes, LDAP, Lidarr, LinkStack,
    Loki, Lubelogger, Mailcow, MariaDB, Mattermost, MeTube, Mealie, Memos, MinIO, MongoDB,
    MQTT, MSSQLServer, MySQL, Nagios, NATS, Neo4j, NestProtect, NestThermostat, Netbootxyz,
    Netdata, NextCloud, NFSServer, NginxProxyManager, Nomad, Ntfy, NtpServer, NUT, Ollama,
    OpenMediaVault, OpenPorts, OpenWebUI, OpenHAB, OpenShift, OpenVpn, OpnSense, OracleDB,
    Overseerr, OwnCloud, PaperlessNGX, PeaNut, PfBlockerNg, PfSense, PhilipsHueBridge, PiHole,
    Plex, PocketID, Portainer, PostgreSQL, PowerDNS, PrintServer, Prometheus, Promtail,
    Prowlarr, Proxmox, ProxmoxBackupServer, ProxmoxDatacenterManager, Pulse, QBittorrent,
    QNAP, RabbitMQ, Radarr, Radicale, Rancher, RemoteDesktop, RedisDB, Restic, RingDoorbell,
    RocketChat, RokuDevice, SABnzbd, Samba, Seafile, Sensu, Sentry, SIPServer, Slskd, Snmp,
    Sonarr, SonosSpeaker, Spinnaker, Splunk, Ssh, Switch, Syncthing, Synology, Tasmota,
    Tautulli, TeamCity, Telnet, Tomcat, TpLinkEap, Traefik, TrueNAS, Tyk, Unbound,
    UnifiAccessPoint, UnifiController, UptimeKuma, VantageNetDaemon, VantageNetServer, Vault,
    Vaultwarden, Veeam, Wazuh, WebService, WgDashboard, Wireguard, Wizarr, WordPress,
    Workstation, Zabbix, Zigbee2MQTT, Zipkin, ZWaveJS }
===============================================================================
